---- MODULE Spec2Model ----
(***************************************************************************)
(* Interaction-event classification engine of the workflow recorder:      *)
(* HotkeyDetector, TextSelectionTracker, DragDropTracker and              *)
(* TextInputManager.  Every tracker is a state machine driven through     *)
(* its Handle* entry points; each tracker has a specification of its own  *)
(* because the trackers share no state (they only share the clock).       *)
(*                                                                         *)
(* Time is the wall clock in milliseconds (time.Now()).  An event handed  *)
(* to `go EventCallback(event)` is recorded as the emission of the call   *)
(* that spawned it; the metadata of an event (timestamp and the UI element *)
(* sampled from the OS at emission time) is not part of the records.      *)
(***************************************************************************)
EXTENDS Integers, Sequences, FiniteSets, TLC

VARIABLES
    now,                \* time.Now(), milliseconds
    \* ---- HotkeyDetector (hotkey_detector.go)
    hd_PressedKeys,     \* keys of the map PressedKeys (values are always true)
    hd_KeyPressOrder,   \* KeyPressOrder
    hd_LastKeyTime,     \* LastKeyTime
    hd_emit,            \* HotkeyEvent spawned by the last HandleKeyPress, or NoEvent
    hd_emitHeld,        \* the keys that were held when that event was built ({} if none)
    hd_run,             \* a run of calls that began with the held-key state empty:
                        \* the key codes of its key-down calls, in call order
    hd_runEmits,        \* per key-down call of hd_run: the event it spawned, or NoEvent
    hd_ups,             \* the key codes of the key-up calls that followed them
    hd_fired            \* the keys of the last event, as long as every call since was
                        \* a key-down sample of one of them ({} otherwise)

VARIABLES
    \* ---- TextSelectionTracker (text_selection_tracker.go)
    tst_IsSelecting,
    tst_SelectionStartPos,
    tst_SelectionStartTime,
    tst_LastMousePos,
    tst_LastClickTime,
    tst_LastClickPos,
    tst_ClickCount,
    tst_emit,           \* TextSelectionEvent spawned by the last call, or NoEvent
    tst_up              \* the last primary-button HandleMouseUp that found a selection
                        \* in progress: squared distance, click count, method chosen
                        \* and text retrieved; NoCall after any other call

tst_vars == <<tst_IsSelecting, tst_SelectionStartPos, tst_SelectionStartTime,
              tst_LastMousePos, tst_LastClickTime, tst_LastClickPos, tst_ClickCount,
              tst_emit, tst_up>>

VARIABLES
    \* ---- DragDropTracker (drag_drop_tracker.go)
    ddt_IsDragging,
    ddt_DragStartPos,
    ddt_DragStartTime,
    ddt_DragStartElement,
    ddt_LastDragPos,
    ddt_emit,           \* DragDropEvent spawned by the last call, or NoEvent
    ddt_call,           \* the last call: its entry point and pointer position (for
                        \* HandleKeyPress, its key code and direction)
    ddt_up,             \* the last primary-button HandleMouseUp: start position before
                        \* the call, release position, target element and the time
                        \* since the primary-down; NoCall after any other call
    ddt_sinceEsc        \* "esc": an Escape key-down cancelled an active drag and no
                        \* primary-down came since; "down": a primary-down came since,
                        \* but no move of MinDragDistance or more from it; "moved":
                        \* such a move came; "none" otherwise

ddt_vars == <<ddt_IsDragging, ddt_DragStartPos, ddt_DragStartTime, ddt_DragStartElement,
              ddt_LastDragPos, ddt_emit, ddt_call, ddt_up, ddt_sinceEsc>>

VARIABLES
    \* ---- TextInputManager (text_input_tracker.go)
    tim_ActiveInputs,   \* element key -> TextInputTracker; CompletionTimer is the
                        \* tracker's timer: its deadline and whether it has fired
                        \* (its callback is started and waits for the manager's lock)
    tim_stale,          \* element key -> number of callbacks of timers that fired
                        \* before they were stopped, and have not run yet
    tim_applied,        \* element key -> number of HandleKeystroke calls applied to
                        \* the session of that key
    tim_done,           \* the sessions the last call completed, with the event each
                        \* emitted (or NoEvent)
    tim_call,           \* the last call: "start" (StartTextInput, with the key of its
                        \* element), "all" (CompleteAllActiveInputs; "all_again" when the
                        \* call before it was CompleteAllActiveInputs too), "timer" (the
                        \* callback of a timer) or "other"
    tim_sinceAll        \* CompleteAllActiveInputs has returned and StartTextInput
                        \* has not been called since

tim_vars == <<tim_ActiveInputs, tim_stale, tim_applied, tim_done, tim_call, tim_sinceAll>>

VARIABLES
    \* ---- BrowserTabTracker (enhanced_clipboard.go)
    btt_BrowserStates,  \* ProcessID -> BrowserState
    btt_emit,           \* BrowserTabNavigationEvent spawned by the last call, or NoEvent
    btt_call            \* the last call: its entry point and the element it was given

btt_vars == <<btt_BrowserStates, btt_emit, btt_call>>

VARIABLES
    \* ---- RateLimiter (unnamed/part_000)
    rl_limiter,         \* Nil (no rate limiting) or the RateLimiter
    rl_ret,             \* what the last call of Allow returned; NoCall after a step
                        \* that is no call of Allow
    rl_grants           \* every call of Allow that returned true: its time and the
                        \* start of the window it was counted in

rl_vars == <<rl_limiter, rl_ret, rl_grants>>

VARIABLES
    \* ---- EnhancedWorkflowRecorder (unnamed/part_003)
    rec_Config,             \* Nil before NewEnhancedWorkflowRecorder, then the Config
    rec_IsRecording,
    rec_Events,             \* the events addEvent has appended, oldest first
    rec_EventCount,         \* how many events addEvent has appended since construction
    rec_FilteredEventCount,
    rec_pending,            \* the callbacks the trackers have spawned (go EventCallback)
                            \* that have not run yet: each is the event it was given
    rec_owed                \* the fields whose session the last StopRecording completed
                            \* after the field had received a non-blank character

rec_vars == <<rec_Config, rec_IsRecording, rec_Events, rec_EventCount,
              rec_FilteredEventCount,
              rec_pending, rec_owed>>

VARIABLES
    \* ---- the trackers' mutexes and the goroutines that use them
    cc_mutex,       \* tracker -> its sync.RWMutex
    cc_caller,      \* calling goroutine -> where it is in its Handle* call
    cc_callback,    \* id of an emitting call -> where the callback it spawned is
    cc_spawned,     \* tracker -> the ids of its calls in the order their callbacks
                    \* were spawned
    cc_committed,   \* tracker -> the ids of its calls in the order they completed
                    \* (released the lock)
    cc_calls        \* how many Handle* calls the callers have started

cc_vars == <<cc_mutex, cc_caller, cc_callback, cc_spawned, cc_committed, cc_calls>>

VARIABLES
    \* ---- goroutines inside a call that takes no lock for all of its steps
    rr_pc,          \* goroutine -> where it is in RateLimiter.Allow
    sr_pc           \* where the goroutine that calls
                    \* TextSelectionTracker.HandleMouseMove is in that call

go_vars == <<rr_pc, sr_pc>>

hd_vars == <<hd_PressedKeys, hd_KeyPressOrder, hd_LastKeyTime, hd_emit, hd_emitHeld,
             hd_run, hd_runEmits, hd_ups, hd_fired>>

vars == <<now, hd_vars, tst_vars, ddt_vars, tim_vars, btt_vars, rl_vars, rec_vars, cc_vars, go_vars>>

NoEvent == [none |-> TRUE]
NoCall == [nocall |-> TRUE]

\* the steps by which the clock advances between two calls, in milliseconds
hd_Steps == {600}

\* ------------------------------------------------------------------ bounds
MaxTime == 600        \* the clock stops advancing here
NumKeys == 5          \* how many key codes of KeyUniverse the keyboard produces
MaxRun == 3           \* key-down calls followed without an intervening key-up
MaxClicks == 4        \* consecutive close clicks counted by the selection tracker

\* ------------------------------------------------------- program constants
VK_CONTROL == 17
VK_MENU == 18
VK_SHIFT == 16
VK_LWIN == 91
MaxKeyDelay == 500
ZeroTime == -1        \* time.Time{}, the zero time
SinceZero == 1000000000   \* time.Since(time.Time{}): beyond every threshold

\* ---------------------------------------------------------------- helpers
Range(s) == {s[i] : i \in 1..Len(s)}

IsInjective(s) == \A i, j \in 1..Len(s) : s[i] = s[j] => i = j

Last(s) == s[Len(s)]

MinOf(S) == CHOOSE x \in S : \A y \in S : x <= y

\* sort.Slice(list, func(i, j) bool { return list[i] < list[j] }) on the keys of a set
RECURSIVE SortedKeys(_)
SortedKeys(S) ==
    IF S = {} THEN <<>> ELSE <<MinOf(S)>> \o SortedKeys(S \ {MinOf(S)})

\* the same sort on a slice (a pattern's key list); duplicates are kept
RECURSIVE SortSlice(_)
SortSlice(s) ==
    IF s = <<>> THEN <<>>
    ELSE LET m == MinOf(Range(s))
             i == CHOOSE k \in 1..Len(s) : s[k] = m
         IN <<m>> \o SortSlice(SubSeq(s, 1, i - 1) \o SubSeq(s, i + 1, Len(s)))

\* ------------------------------------------------------------ the catalog
Pat(keys, comb, action, global, cat) ==
    [Keys |-> keys, Combination |-> comb, Action |-> action,
     IsGlobal |-> global, Category |-> cat]

initializeHotkeyPatterns ==
    << Pat(<<VK_CONTROL, 83>>, "Ctrl+S", "Save", FALSE, "File"),
       Pat(<<VK_CONTROL, 79>>, "Ctrl+O", "Open", FALSE, "File"),
       Pat(<<VK_CONTROL, 78>>, "Ctrl+N", "New", FALSE, "File"),
       Pat(<<VK_CONTROL, 80>>, "Ctrl+P", "Print", FALSE, "File"),
       Pat(<<VK_CONTROL, 67>>, "Ctrl+C", "Copy", FALSE, "Edit"),
       Pat(<<VK_CONTROL, 86>>, "Ctrl+V", "Paste", FALSE, "Edit"),
       Pat(<<VK_CONTROL, 88>>, "Ctrl+X", "Cut", FALSE, "Edit"),
       Pat(<<VK_CONTROL, 90>>, "Ctrl+Z", "Undo", FALSE, "Edit"),
       Pat(<<VK_CONTROL, 89>>, "Ctrl+Y", "Redo", FALSE, "Edit"),
       Pat(<<VK_CONTROL, 65>>, "Ctrl+A", "Select All", FALSE, "Edit"),
       Pat(<<VK_CONTROL, 70>>, "Ctrl+F", "Find", FALSE, "Edit"),
       Pat(<<VK_MENU, 9>>, "Alt+Tab", "Switch Window", TRUE, "Window"),
       Pat(<<VK_MENU, 112>>, "Alt+F4", "Close Window", FALSE, "Window"),
       Pat(<<VK_LWIN, 68>>, "Win+D", "Show Desktop", TRUE, "Window"),
       Pat(<<VK_LWIN, 76>>, "Win+L", "Lock Screen", TRUE, "System"),
       Pat(<<VK_CONTROL, 84>>, "Ctrl+T", "New Tab", FALSE, "Browser"),
       Pat(<<VK_CONTROL, 87>>, "Ctrl+W", "Close Tab", FALSE, "Browser"),
       Pat(<<VK_CONTROL, 9>>, "Ctrl+Tab", "Next Tab", FALSE, "Browser"),
       Pat(<<VK_CONTROL, VK_SHIFT, 9>>, "Ctrl+Shift+Tab", "Previous Tab", FALSE, "Browser"),
       Pat(<<VK_CONTROL, 82>>, "Ctrl+R", "Refresh", FALSE, "Browser"),
       Pat(<<VK_CONTROL, 76>>, "Ctrl+L", "Address Bar", FALSE, "Browser"),
       Pat(<<VK_LWIN, 49>>, "Win+1", "Launch App 1", TRUE, "Launcher"),
       Pat(<<VK_LWIN, 50>>, "Win+2", "Launch App 2", TRUE, "Launcher"),
       Pat(<<VK_LWIN, 51>>, "Win+3", "Launch App 3", TRUE, "Launcher"),
       Pat(<<VK_LWIN, 52>>, "Win+4", "Launch App 4", TRUE, "Launcher"),
       Pat(<<VK_LWIN, 53>>, "Win+5", "Launch App 5", TRUE, "Launcher"),
       Pat(<<112>>, "F1", "Help", FALSE, "Function"),
       Pat(<<115>>, "F4", "Address Bar", FALSE, "Function"),
       Pat(<<116>>, "F5", "Refresh", FALSE, "Function"),
       Pat(<<122>>, "F11", "Full Screen", FALSE, "Function"),
       Pat(<<VK_CONTROL, 66>>, "Ctrl+B", "Bold", FALSE, "Format"),
       Pat(<<VK_CONTROL, 73>>, "Ctrl+I", "Italic", FALSE, "Format"),
       Pat(<<VK_CONTROL, 85>>, "Ctrl+U", "Underline", FALSE, "Format"),
       Pat(<<VK_MENU, 37>>, "Alt+Left", "Back", FALSE, "Navigation"),
       Pat(<<VK_MENU, 39>>, "Alt+Right", "Forward", FALSE, "Navigation"),
       Pat(<<VK_CONTROL, 36>>, "Ctrl+Home", "Go to Start", FALSE, "Navigation"),
       Pat(<<VK_CONTROL, 35>>, "Ctrl+End", "Go to End", FALSE, "Navigation"),
       Pat(<<VK_CONTROL, VK_SHIFT, 27>>, "Ctrl+Shift+Esc", "Task Manager", TRUE, "System"),
       Pat(<<VK_CONTROL, VK_MENU, 46>>, "Ctrl+Alt+Delete", "Security Screen", TRUE, "System"),
       Pat(<<44>>, "PrintScreen", "Screenshot", TRUE, "System") >>

HotkeyPatterns == initializeHotkeyPatterns

HotkeyEventOf(pattern) ==
    [Combination |-> pattern.Combination, Action |-> pattern.Action,
     IsGlobal |-> pattern.IsGlobal]

\* The key codes the keyboard can produce, the ones of the overlapping
\* patterns first; the model uses the first NumKeys of them.
KeyUniverse ==
    <<VK_CONTROL, 9, VK_SHIFT, 83, 112, 81, VK_MENU, 27, 44, 46, 115, 76, VK_LWIN>>

Keys == {KeyUniverse[i] : i \in 1..NumKeys}

\* ------------------------------------------------------- HotkeyDetector
\* clearState: both the map and the order list are replaced by empty ones
clearState == [PressedKeys |-> {}, KeyPressOrder |-> <<>>]

\* keysMatch without the sort of the pattern's keys
keysMatch_unsorted(pressedKeys, patternKeys) ==
    /\ Len(pressedKeys) = Len(patternKeys)
    /\ \A i \in 1..Len(pressedKeys) : pressedKeys[i] = patternKeys[i]

\* keysMatch(pressedKeys, patternKeys): pressedKeys is already sorted
keysMatch(pressedKeys, patternKeys) ==
    /\ Len(pressedKeys) = Len(patternKeys)
    /\ LET sortedPatternKeys == SortSlice(patternKeys)
       IN \A i \in 1..Len(pressedKeys) : pressedKeys[i] = sortedPatternKeys[i]

\* checkForHotkeys without the "at least 2 keys" return
checkForHotkeys_noMinimum(pressed, order) ==
    LET pressedKeysList == SortedKeys(pressed)
        matching == {i \in 1..Len(HotkeyPatterns) :
                        keysMatch(pressedKeysList, HotkeyPatterns[i].Keys)}
    IN IF matching = {}
       THEN [PressedKeys |-> pressed, KeyPressOrder |-> order, event |-> NoEvent, held |-> {}]
       ELSE [PressedKeys |-> clearState.PressedKeys,
             KeyPressOrder |-> clearState.KeyPressOrder,
             event |-> HotkeyEventOf(HotkeyPatterns[MinOf(matching)]),
             held |-> pressed]

\* checkForHotkeys on the held state (pressed, order): the state it leaves
\* and the event it spawns (NoEvent if none)
checkForHotkeys(pressed, order) ==
    IF Cardinality(pressed) < 2
    THEN [PressedKeys |-> pressed, KeyPressOrder |-> order, event |-> NoEvent, held |-> {}]
    ELSE LET pressedKeysList == SortedKeys(pressed)
             matching == {i \in 1..Len(HotkeyPatterns) :
                             keysMatch(pressedKeysList, HotkeyPatterns[i].Keys)}
         IN IF matching = {}
            THEN [PressedKeys |-> pressed, KeyPressOrder |-> order, event |-> NoEvent, held |-> {}]
            ELSE [PressedKeys |-> clearState.PressedKeys,
                  KeyPressOrder |-> clearState.KeyPressOrder,
                  event |-> HotkeyEventOf(HotkeyPatterns[MinOf(matching)]),
                  held |-> pressed]

\* the key-down branch of HandleKeyPress
HandleKeyDown(pressed, order, last, keyCode, t) ==
    IF keyCode \notin pressed
    THEN LET r == checkForHotkeys(pressed \cup {keyCode}, Append(order, keyCode))
         IN [PressedKeys |-> r.PressedKeys, KeyPressOrder |-> r.KeyPressOrder,
             LastKeyTime |-> t, event |-> r.event, held |-> r.held]
    ELSE [PressedKeys |-> pressed, KeyPressOrder |-> order,
          LastKeyTime |-> last, event |-> NoEvent, held |-> {}]

\* the removal loop with an off-by-one slice, which removes nothing
RemoveFirst_keeps(order, keyCode) == order

\* removal of the first occurrence of keyCode from the press order
RemoveFirst(order, keyCode) ==
    IF keyCode \in Range(order)
    THEN LET i == MinOf({k \in 1..Len(order) : order[k] = keyCode})
         IN SubSeq(order, 1, i - 1) \o SubSeq(order, i + 1, Len(order))
    ELSE order

\* the key-up branch without the delete from the map
HandleKeyUp_noDelete(pressed, order, last, keyCode, t) ==
    IF keyCode \in pressed
    THEN LET o == RemoveFirst(order, keyCode)
         IN IF t - last > MaxKeyDelay
            THEN [PressedKeys |-> clearState.PressedKeys,
                  KeyPressOrder |-> clearState.KeyPressOrder,
                  LastKeyTime |-> last, event |-> NoEvent, held |-> {}]
            ELSE [PressedKeys |-> pressed, KeyPressOrder |-> o,
                  LastKeyTime |-> last, event |-> NoEvent, held |-> {}]
    ELSE [PressedKeys |-> pressed, KeyPressOrder |-> order,
          LastKeyTime |-> last, event |-> NoEvent, held |-> {}]

\* the key-up branch that clears the state only when no key is left
HandleKeyUp_noIdleReset(pressed, order, last, keyCode, t) ==
    IF keyCode \in pressed
    THEN LET p == pressed \ {keyCode}
             o == RemoveFirst(order, keyCode)
         IN IF p = {}
            THEN [PressedKeys |-> clearState.PressedKeys,
                  KeyPressOrder |-> clearState.KeyPressOrder,
                  LastKeyTime |-> last, event |-> NoEvent, held |-> {}]
            ELSE [PressedKeys |-> p, KeyPressOrder |-> o,
                  LastKeyTime |-> last, event |-> NoEvent, held |-> {}]
    ELSE [PressedKeys |-> pressed, KeyPressOrder |-> order,
          LastKeyTime |-> last, event |-> NoEvent, held |-> {}]

\* the key-up branch of HandleKeyPress
HandleKeyUp(pressed, order, last, keyCode, t) ==
    IF keyCode \in pressed
    THEN LET p == pressed \ {keyCode}
             o == RemoveFirst(order, keyCode)
         IN IF p = {} \/ t - last > MaxKeyDelay
            THEN [PressedKeys |-> clearState.PressedKeys,
                  KeyPressOrder |-> clearState.KeyPressOrder,
                  LastKeyTime |-> last, event |-> NoEvent, held |-> {}]
            ELSE [PressedKeys |-> p, KeyPressOrder |-> o,
                  LastKeyTime |-> last, event |-> NoEvent, held |-> {}]
    ELSE [PressedKeys |-> pressed, KeyPressOrder |-> order,
          LastKeyTime |-> last, event |-> NoEvent, held |-> {}]

hd_Init ==
    /\ hd_PressedKeys = {}
    /\ hd_KeyPressOrder = <<>>
    /\ hd_LastKeyTime = 0
    /\ hd_emit = NoEvent
    /\ hd_emitHeld = {}
    /\ hd_run = <<>>
    /\ hd_runEmits = <<>>
    /\ hd_ups = {}
    /\ hd_fired = {}

\* HotkeyDetector.HandleKeyPress(keyCode, isKeyDown).  The run (hd_run,
\* hd_runEmits, hd_ups) records the calls made since the held-key state was
\* last found empty: key-downs, then key-ups of those keys.  Any other call
\* ends the record; the next key-down that finds the state empty starts one.
HotkeyDetector_HandleKeyPress(keyCode, isKeyDown) ==
    LET r == IF isKeyDown
             THEN HandleKeyDown(hd_PressedKeys, hd_KeyPressOrder, hd_LastKeyTime, keyCode, now)
             ELSE HandleKeyUp(hd_PressedKeys, hd_KeyPressOrder, hd_LastKeyTime, keyCode, now)
        continues == hd_run # <<>> /\ hd_ups = {} /\ Len(hd_run) < MaxRun
        starts == ~continues /\ hd_PressedKeys = {}
        releases == hd_run # <<>> /\ keyCode \in Range(hd_run)
    IN /\ hd_PressedKeys' = r.PressedKeys
       /\ hd_KeyPressOrder' = r.KeyPressOrder
       /\ hd_LastKeyTime' = r.LastKeyTime
       /\ hd_emit' = r.event
       /\ hd_emitHeld' = r.held
       /\ hd_run' = IF isKeyDown
                    THEN IF continues THEN Append(hd_run, keyCode)
                         ELSE IF starts THEN <<keyCode>> ELSE <<>>
                    ELSE IF releases THEN hd_run ELSE <<>>
       /\ hd_runEmits' = IF isKeyDown
                         THEN IF continues THEN Append(hd_runEmits, r.event)
                              ELSE IF starts THEN <<r.event>> ELSE <<>>
                         ELSE IF releases THEN hd_runEmits ELSE <<>>
       /\ hd_ups' = IF ~isKeyDown /\ releases THEN hd_ups \cup {keyCode} ELSE {}
       /\ hd_fired' = IF ~isKeyDown THEN {}
                      ELSE IF r.event # NoEvent THEN r.held
                      ELSE IF keyCode \in hd_fired THEN hd_fired ELSE {}

\* HotkeyDetector.HandleKeyPress called on its own
hd_HandleKeyPress(keyCode, isKeyDown) ==
    /\ HotkeyDetector_HandleKeyPress(keyCode, isKeyDown)
    /\ UNCHANGED <<now, tst_vars, ddt_vars, tim_vars, btt_vars, rl_vars, rec_vars, cc_vars, go_vars>>

hd_KeyDown == \E k \in Keys : hd_HandleKeyPress(k, TRUE)

hd_KeyUp == \E k \in Keys : hd_HandleKeyPress(k, FALSE)

\* the clock advances between two calls
hd_Tick ==
    /\ \E d \in hd_Steps : now + d <= MaxTime /\ now' = now + d
    /\ hd_emit' = NoEvent
    /\ hd_emitHeld' = {}
    /\ UNCHANGED <<hd_PressedKeys, hd_KeyPressOrder, hd_LastKeyTime,
                   hd_run, hd_runEmits, hd_ups, hd_fired>>
    /\ UNCHANGED <<tst_vars, ddt_vars, tim_vars, btt_vars, rl_vars, rec_vars, cc_vars, go_vars>>

\* ---- the keyboard of SpecHotkeyCatalog: from the empty state, key-downs of
\* distinct keys of one catalog pattern (any pattern, any order), then key-ups
\* of those keys
PatternKeySets == {Range(HotkeyPatterns[i].Keys) : i \in 1..Len(HotkeyPatterns)}

hd_PressPatternKey ==
    \E ks \in PatternKeySets : \E k \in ks :
        /\ hd_ups = {}
        /\ Range(hd_run) \subseteq ks
        /\ k \notin Range(hd_run)
        /\ hd_run = <<>> => hd_PressedKeys = {}
        /\ hd_HandleKeyPress(k, TRUE)

hd_ReleaseRunKey ==
    \E k \in Range(hd_run) : hd_HandleKeyPress(k, FALSE)

\* ------------------------------------------------- geometry and timing
Pos(x, y) == [X |-> x, Y |-> y]

\* time.Since(t)
Since(t) == IF t = ZeroTime THEN SinceZero ELSE now - t

\* calculateDistance squared: dx*dx + dy*dy, the argument of math.Sqrt.  The
\* square root of a sum of two integer squares is compared with the whole
\* numbers 5, 10 and 50 only, and math.Sqrt is exact on perfect squares and
\* monotonic, so d < r iff d*d < r*r.
calculateDistanceSq(p1, p2) ==
    (p2.X - p1.X) * (p2.X - p1.X) + (p2.Y - p1.Y) * (p2.Y - p1.Y)

\* ------------------------------------------------- TextSelectionTracker
minSelectionDistance == 5
maxClickDistance == 5
maxClickInterval == 500

\* the pointer positions of the selection tracker: a base point and points
\* 3, 5 (= 3-4-5) and 60 pixels away from it
tst_Positions == {Pos(100, 100), Pos(103, 100), Pos(103, 104), Pos(100, 160)}

MouseButtons == {"Left", "Right"}

tst_Steps == {300}

\* getSelectedText: a placeholder in the source, it returns the empty string
getSelectedText == <<>>

isCloseClick_anyTime(position, lastClickTime, lastClickPos) ==
    calculateDistanceSq(lastClickPos, position) <= maxClickDistance * maxClickDistance

\* isCloseClick(position, clickTime)
isCloseClick(position, lastClickTime, lastClickPos) ==
    IF Since(lastClickTime) > maxClickInterval
    THEN FALSE
    ELSE calculateDistanceSq(lastClickPos, position) <= maxClickDistance * maxClickDistance

\* the classification of HandleMouseUp with the drag distance tested first
selectionMethod_distanceFirst(distanceSq, clickCount) ==
    IF distanceSq < minSelectionDistance * minSelectionDistance /\ clickCount <= 1
    THEN "None"
    ELSE IF distanceSq >= minSelectionDistance * minSelectionDistance THEN "MouseDrag"
    ELSE IF clickCount = 2 THEN "DoubleClick"
    ELSE IF clickCount = 3 THEN "TripleClick"
    ELSE "None"

\* the classification of HandleMouseUp: the early return of a plain click,
\* then the switch on ClickCount ("None": the handler returns without a method)
selectionMethod(distanceSq, clickCount) ==
    IF distanceSq < minSelectionDistance * minSelectionDistance /\ clickCount <= 1
    THEN "None"
    ELSE IF clickCount = 2 THEN "DoubleClick"
    ELSE IF clickCount = 3 THEN "TripleClick"
    ELSE IF distanceSq >= minSelectionDistance * minSelectionDistance THEN "MouseDrag"
    ELSE "None"

tst_Init ==
    /\ tst_IsSelecting = FALSE
    /\ tst_SelectionStartPos = Pos(0, 0)
    /\ tst_SelectionStartTime = ZeroTime
    /\ tst_LastMousePos = Pos(0, 0)
    /\ tst_LastClickTime = ZeroTime
    /\ tst_LastClickPos = Pos(0, 0)
    /\ tst_ClickCount = 0
    /\ tst_emit = NoEvent
    /\ tst_up = NoCall

\* TextSelectionTracker.HandleMouseDown(position, button)
TextSelectionTracker_HandleMouseDown(position, button) ==
    /\ tst_emit' = NoEvent
    /\ tst_up' = NoCall
    /\ IF button # "Left"
       THEN UNCHANGED <<tst_IsSelecting, tst_SelectionStartPos, tst_SelectionStartTime,
                        tst_LastMousePos, tst_LastClickTime, tst_LastClickPos,
                        tst_ClickCount>>
       ELSE /\ tst_ClickCount' =
                  IF isCloseClick(position, tst_LastClickTime, tst_LastClickPos)
                  THEN tst_ClickCount + 1 ELSE 1
            /\ tst_ClickCount' <= MaxClicks
            /\ tst_LastClickTime' = now
            /\ tst_LastClickPos' = position
            /\ tst_IsSelecting' = TRUE
            /\ tst_SelectionStartPos' = position
            /\ tst_SelectionStartTime' = now
            /\ tst_LastMousePos' = position

\* TextSelectionTracker.HandleMouseDown called on its own
tst_HandleMouseDown(position, button) ==
    /\ TextSelectionTracker_HandleMouseDown(position, button)
    /\ UNCHANGED <<now, hd_vars, ddt_vars, tim_vars, btt_vars, rl_vars, rec_vars, cc_vars, go_vars>>

\* TextSelectionTracker.HandleMouseMove(position)
TextSelectionTracker_HandleMouseMove(position) ==
    /\ tst_emit' = NoEvent
    /\ tst_up' = NoCall
    /\ tst_LastMousePos' = IF tst_IsSelecting THEN position ELSE tst_LastMousePos
    /\ UNCHANGED <<tst_IsSelecting, tst_SelectionStartPos, tst_SelectionStartTime,
                   tst_LastClickTime, tst_LastClickPos, tst_ClickCount>>

\* TextSelectionTracker.HandleMouseMove called on its own
tst_HandleMouseMove(position) ==
    /\ TextSelectionTracker_HandleMouseMove(position)
    /\ UNCHANGED <<now, hd_vars, ddt_vars, tim_vars, btt_vars, rl_vars, rec_vars, cc_vars, go_vars>>

\* TextSelectionTracker.HandleMouseUp(position, button)
TextSelectionTracker_HandleMouseUp(position, button) ==
    /\ IF button # "Left" \/ ~tst_IsSelecting
       THEN /\ tst_emit' = NoEvent
            /\ tst_up' = NoCall
            /\ UNCHANGED tst_IsSelecting
       ELSE LET distanceSq == calculateDistanceSq(tst_SelectionStartPos, position)
                method == selectionMethod(distanceSq, tst_ClickCount)
                selectedText == IF method = "None" THEN <<>> ELSE getSelectedText
            IN /\ tst_IsSelecting' = FALSE
               /\ tst_up' = [distanceSq |-> distanceSq, clickCount |-> tst_ClickCount,
                             method |-> method, text |-> selectedText]
               /\ tst_emit' =
                     IF method = "None" \/ selectedText = <<>>
                     THEN NoEvent
                     ELSE [SelectedText |-> selectedText,
                           StartPosition |-> tst_SelectionStartPos,
                           EndPosition |-> position,
                           SelectionMethod |-> method,
                           SelectionLength |-> Len(selectedText)]
    /\ UNCHANGED <<tst_SelectionStartPos, tst_SelectionStartTime, tst_LastMousePos,
                   tst_LastClickTime, tst_LastClickPos, tst_ClickCount>>

\* TextSelectionTracker.HandleMouseUp called on its own
tst_HandleMouseUp(position, button) ==
    /\ TextSelectionTracker_HandleMouseUp(position, button)
    /\ UNCHANGED <<now, hd_vars, ddt_vars, tim_vars, btt_vars, rl_vars, rec_vars, cc_vars, go_vars>>

tst_MouseDown == \E p \in tst_Positions, b \in MouseButtons : tst_HandleMouseDown(p, b)

tst_MouseMove == \E p \in tst_Positions : tst_HandleMouseMove(p)

tst_MouseUp == \E p \in tst_Positions, b \in MouseButtons : tst_HandleMouseUp(p, b)

tst_Tick ==
    /\ \E d \in tst_Steps : now + d <= MaxTime /\ now' = now + d
    /\ tst_emit' = NoEvent
    /\ tst_up' = NoCall
    /\ UNCHANGED <<tst_IsSelecting, tst_SelectionStartPos, tst_SelectionStartTime,
                   tst_LastMousePos, tst_LastClickTime, tst_LastClickPos, tst_ClickCount>>
    /\ UNCHANGED <<hd_vars, ddt_vars, tim_vars, btt_vars, rl_vars, rec_vars, cc_vars, go_vars>>

\* ------------------------------------------------------------- strings
\* A Go string is the sequence of its characters (all ASCII here).
UpperCase == <<"A", "B", "C", "D", "E", "F", "G", "H", "I", "J", "K", "L", "M",
               "N", "O", "P", "Q", "R", "S", "T", "U", "V", "W", "X", "Y", "Z">>
LowerCase == <<"a", "b", "c", "d", "e", "f", "g", "h", "i", "j", "k", "l", "m",
               "n", "o", "p", "q", "r", "s", "t", "u", "v", "w", "x", "y", "z">>

\* strings.ToLower
ToLower(str) ==
    [i \in 1..Len(str) |->
        IF \E k \in 1..Len(UpperCase) : UpperCase[k] = str[i]
        THEN LowerCase[CHOOSE k \in 1..Len(UpperCase) : UpperCase[k] = str[i]]
        ELSE str[i]]

\* strings.Contains
Contains(str, substr) ==
    \E i \in 0..(Len(str) - Len(substr)) : SubSeq(str, i + 1, i + Len(substr)) = substr

\* the nil *UIElement
Nil == [nil |-> TRUE]

UIElement(role, name, windowTitle) ==
    [Role |-> role, Name |-> name, WindowTitle |-> windowTitle]

\* ---------------------------------------------------------- DragDropTracker
MinDragDistance == 10
dropDistance == 50
dropDuration == 500
VK_ESCAPE == 27

dropTargetRoles ==
    <<<<"l", "i", "s", "t">>,
      <<"l", "i", "s", "t", "b", "o", "x">>,
      <<"t", "r", "e", "e">>,
      <<"t", "r", "e", "e", "i", "t", "e", "m">>,
      <<"d", "o", "c", "u", "m", "e", "n", "t">>,
      <<"a", "p", "p", "l", "i", "c", "a", "t", "i", "o", "n">>,
      <<"p", "a", "n", "e">>,
      <<"w", "i", "n", "d", "o", "w">>,
      <<"t", "e", "x", "t", "b", "o", "x">>,
      <<"e", "d", "i", "t", "b", "o", "x">>,
      <<"r", "i", "c", "h", "e", "d", "i", "t">>,
      <<"b", "u", "t", "t", "o", "n">>,
      <<"d", "r", "o", "p", "d", "o", "w", "n", "b", "u", "t", "t", "o", "n">>>>

dropKeywords ==
    <<<<"d", "r", "o", "p">>,
      <<"u", "p", "l", "o", "a", "d">>,
      <<"i", "m", "p", "o", "r", "t">>,
      <<"a", "t", "t", "a", "c", "h">>,
      <<"b", "r", "o", "w", "s", "e">>,
      <<"f", "i", "l", "e">>,
      <<"f", "o", "l", "d", "e", "r">>,
      <<"d", "i", "r", "e", "c", "t", "o", "r", "y">>>>

\* the elements under the pointer: a list box, a label, an upload area and a
\* list item that names a file
E_listbox == UIElement(<<"L", "i", "s", "t", "B", "o", "x">>, <<>>, <<"w">>)
E_label == UIElement(<<"l", "a", "b", "e", "l">>, <<"s", "t", "a", "t", "u", "s">>, <<"w">>)
E_upload == UIElement(<<"c", "u", "s", "t", "o", "m">>, <<"U", "p", "l", "o", "a", "d", " ", "h", "e", "r", "e">>, <<"w">>)
E_item == UIElement(<<"l", "i", "s", "t", "i", "t", "e", "m">>, <<"a", ".", "t", "x", "t">>, <<"w">>)

ddt_Sources == {Nil, E_item, E_label}
ddt_Targets == {Nil, E_listbox, E_label, E_upload}

\* what getClipboardContent can return: nothing, a path, a text
Clipboards == {<<>>, <<"C", ":", "\\", "a">>, <<"h", "i">>}

\* the pointer positions of the drag tracker: the origin and points 3, 10
\* (= 6-8-10), 50 (= 30-40-50) and 60 pixels away from it
ddt_Positions == {Pos(0, 0), Pos(0, 3), Pos(6, 8), Pos(30, 40), Pos(0, 60)}

ddt_KeyCodes == {VK_ESCAPE, 65}

ddt_Steps == {300}

\* isDropTarget that knows the drop keywords of names but no drop-target role
isDropTarget_namesOnly(element) ==
    IF element = Nil THEN FALSE
    ELSE LET elementName == ToLower(element.Name)
         IN \E i \in 1..Len(dropKeywords) : Contains(elementName, dropKeywords[i])

\* isDropTarget(element)
isDropTarget(element) ==
    IF element = Nil THEN FALSE
    ELSE LET elementRole == ToLower(element.Role)
             elementName == ToLower(element.Name)
         IN \/ \E i \in 1..Len(dropTargetRoles) :
                  elementRole = dropTargetRoles[i] \/ Contains(elementRole, dropTargetRoles[i])
            \/ \E i \in 1..Len(dropKeywords) : Contains(elementName, dropKeywords[i])

\* isSuccessfulDrop with "distance >= 50" for "distance > 50"
isSuccessfulDrop_atLeast(startPos, startTime, dropPosition, targetElement) ==
    \/ targetElement # Nil /\ isDropTarget(targetElement)
    \/ calculateDistanceSq(startPos, dropPosition) >= dropDistance * dropDistance
    \/ Since(startTime) > dropDuration

\* isSuccessfulDrop(dropPosition, targetElement)
isSuccessfulDrop(startPos, startTime, dropPosition, targetElement) ==
    \/ targetElement # Nil /\ isDropTarget(targetElement)
    \/ calculateDistanceSq(startPos, dropPosition) > dropDistance * dropDistance
    \/ Since(startTime) > dropDuration

\* getDragContent(): content and data type, from the clipboard first and
\* from the element the drag started on otherwise
getDragContent(clipboardContent, startElement) ==
    IF clipboardContent # <<>>
    THEN IF Contains(clipboardContent, <<":", "\\">>) \/ Contains(clipboardContent, <<"/">>)
         THEN [content |-> clipboardContent, dataType |-> "file"]
         ELSE [content |-> clipboardContent, dataType |-> "text"]
    ELSE IF startElement = Nil THEN [content |-> <<>>, dataType |-> "unknown"]
    ELSE LET elementRole == ToLower(startElement.Role)
             elementName == ToLower(startElement.Name)
         IN IF /\ Contains(elementRole, <<"l", "i", "s", "t", "i", "t", "e", "m">>) \/ Contains(elementRole, <<"t", "r", "e", "e", "i", "t", "e", "m">>)
               /\ Contains(elementName, <<".">>)
            THEN [content |-> startElement.Name, dataType |-> "file"]
            ELSE IF Contains(elementRole, <<"t", "e", "x", "t">>) \/ Contains(elementRole, <<"e", "d", "i", "t">>)
            THEN [content |-> startElement.Name, dataType |-> "text"]
            ELSE IF Contains(elementRole, <<"i", "m", "a", "g", "e">>) \/ Contains(elementName, <<"i", "m", "a", "g", "e">>)
            THEN [content |-> startElement.Name, dataType |-> "image"]
            ELSE [content |-> <<>>, dataType |-> "unknown"]

\* clearDragState that leaves DragStartTime as it is
clearDragState_keepsStartTime ==
    [IsDragging |-> FALSE, DragStartTime |-> ddt_DragStartTime, DragStartElement |-> Nil,
     DragStartPos |-> Pos(0, 0), LastDragPos |-> Pos(0, 0)]

\* clearDragState
clearDragState ==
    [IsDragging |-> FALSE, DragStartTime |-> ZeroTime, DragStartElement |-> Nil,
     DragStartPos |-> Pos(0, 0), LastDragPos |-> Pos(0, 0)]

\* the two tests of HandleMouseUp without the second one
releaseCompletesDrag_noRecheck(isDragging, startTime, distanceSq) ==
    ~(~isDragging \/ startTime = ZeroTime)

\* the two tests of HandleMouseUp that decide whether the release completes
\* a drag: a confirmed drag, and a release at MinDragDistance or more
releaseCompletesDrag(isDragging, startTime, distanceSq) ==
    /\ ~(~isDragging \/ startTime = ZeroTime)
    /\ ~(distanceSq < MinDragDistance * MinDragDistance)

ddt_Init ==
    /\ ddt_IsDragging = FALSE
    /\ ddt_DragStartPos = Pos(0, 0)
    /\ ddt_DragStartTime = ZeroTime
    /\ ddt_DragStartElement = Nil
    /\ ddt_LastDragPos = Pos(0, 0)
    /\ ddt_emit = NoEvent
    /\ ddt_call = NoCall
    /\ ddt_up = NoCall
    /\ ddt_sinceEsc = "none"

ddt_state == <<ddt_IsDragging, ddt_DragStartPos, ddt_DragStartTime,
               ddt_DragStartElement, ddt_LastDragPos>>

ddt_Cleared(c) ==
    /\ ddt_IsDragging' = c.IsDragging
    /\ ddt_DragStartTime' = c.DragStartTime
    /\ ddt_DragStartElement' = c.DragStartElement
    /\ ddt_DragStartPos' = c.DragStartPos
    /\ ddt_LastDragPos' = c.LastDragPos

\* HandleMouseDown that returns at once when it is given no element
ddt_HandleMouseDown_needsElement(position, button, element) ==
    /\ ddt_emit' = NoEvent
    /\ ddt_up' = NoCall
    /\ ddt_call' = [op |-> "down", position |-> position]
    /\ IF button # "Left" \/ element = Nil
       THEN UNCHANGED <<ddt_state, ddt_sinceEsc>>
       ELSE /\ ddt_DragStartPos' = position
            /\ ddt_DragStartTime' = now
            /\ ddt_DragStartElement' = element
            /\ ddt_LastDragPos' = position
            /\ ddt_IsDragging' = FALSE
            /\ ddt_sinceEsc' = IF ddt_sinceEsc = "none" THEN "none" ELSE "down"
    /\ UNCHANGED <<now, hd_vars, tst_vars, tim_vars, btt_vars, rl_vars, rec_vars, cc_vars, go_vars>>

\* DragDropTracker.HandleMouseDown(position, button, element)
DragDropTracker_HandleMouseDown(position, button, element) ==
    /\ ddt_emit' = NoEvent
    /\ ddt_up' = NoCall
    /\ ddt_call' = [op |-> "down", position |-> position]
    /\ IF button # "Left"
       THEN UNCHANGED <<ddt_state, ddt_sinceEsc>>
       ELSE /\ ddt_DragStartPos' = position
            /\ ddt_DragStartTime' = now
            /\ ddt_DragStartElement' = element
            /\ ddt_LastDragPos' = position
            /\ ddt_IsDragging' = FALSE
            /\ ddt_sinceEsc' = IF ddt_sinceEsc = "none" THEN "none" ELSE "down"

\* DragDropTracker.HandleMouseDown called on its own
ddt_HandleMouseDown(position, button, element) ==
    /\ DragDropTracker_HandleMouseDown(position, button, element)
    /\ UNCHANGED <<now, hd_vars, tst_vars, tim_vars, btt_vars, rl_vars, rec_vars, cc_vars, go_vars>>

\* DragDropTracker.HandleMouseMove(position)
DragDropTracker_HandleMouseMove(position) ==
    /\ ddt_emit' = NoEvent
    /\ ddt_up' = NoCall
    /\ ddt_call' = [op |-> "move", position |-> position]
    /\ IF ddt_DragStartTime = ZeroTime
       THEN UNCHANGED <<ddt_state, ddt_sinceEsc>>
       ELSE LET distanceSq == calculateDistanceSq(ddt_DragStartPos, position)
                reached == distanceSq >= MinDragDistance * MinDragDistance
            IN /\ ddt_LastDragPos' = position
               /\ ddt_IsDragging' = (ddt_IsDragging \/ reached)
               /\ ddt_sinceEsc' = IF ddt_sinceEsc = "down" /\ reached
                                  THEN "moved" ELSE ddt_sinceEsc
               /\ UNCHANGED <<ddt_DragStartPos, ddt_DragStartTime, ddt_DragStartElement>>

\* DragDropTracker.HandleMouseMove called on its own
ddt_HandleMouseMove(position) ==
    /\ DragDropTracker_HandleMouseMove(position)
    /\ UNCHANGED <<now, hd_vars, tst_vars, tim_vars, btt_vars, rl_vars, rec_vars, cc_vars, go_vars>>

\* DragDropTracker.HandleMouseUp(position, button, element); clipboard is
\* what getClipboardContent returns to getDragContent
DragDropTracker_HandleMouseUp(position, button, element, clipboard) ==
    /\ ddt_call' = [op |-> "up", position |-> position]
    /\ IF button # "Left"
       THEN /\ ddt_emit' = NoEvent
            /\ ddt_up' = NoCall
            /\ UNCHANGED <<ddt_state, ddt_sinceEsc>>
       ELSE LET distanceSq == calculateDistanceSq(ddt_DragStartPos, position)
                completes == releaseCompletesDrag(ddt_IsDragging, ddt_DragStartTime,
                                                  distanceSq)
                dropSuccess == isSuccessfulDrop(ddt_DragStartPos, ddt_DragStartTime,
                                                position, element)
                drag == getDragContent(clipboard, ddt_DragStartElement)
            IN /\ ddt_up' = [start |-> ddt_DragStartPos, position |-> position,
                             target |-> element, duration |-> Since(ddt_DragStartTime),
                             wasDragging |-> ddt_IsDragging]
               /\ ddt_emit' =
                     IF completes
                     THEN [StartPosition |-> ddt_DragStartPos,
                           EndPosition |-> position,
                           SourceElement |-> ddt_DragStartElement,
                           DataType |-> drag.dataType,
                           Content |-> drag.content,
                           Success |-> dropSuccess,
                           Target |-> element]
                     ELSE NoEvent
               /\ ddt_Cleared(clearDragState)
               /\ ddt_sinceEsc' = IF ddt_sinceEsc = "down" THEN "esc"
                                  ELSE IF ddt_sinceEsc = "moved" THEN "none"
                                  ELSE ddt_sinceEsc

\* DragDropTracker.HandleMouseUp called on its own
ddt_HandleMouseUp(position, button, element, clipboard) ==
    /\ DragDropTracker_HandleMouseUp(position, button, element, clipboard)
    /\ UNCHANGED <<now, hd_vars, tst_vars, tim_vars, btt_vars, rl_vars, rec_vars, cc_vars, go_vars>>

\* HandleKeyPress whose Escape key-down clears the drag state in every state
DragDropTracker_HandleKeyPress_anyState(keyCode, isKeyDown) ==
    /\ ddt_emit' = NoEvent
    /\ ddt_up' = NoCall
    /\ ddt_call' = [op |-> "key", position |-> Pos(0, 0),
                    keyCode |-> keyCode, isKeyDown |-> isKeyDown]
    /\ IF keyCode = VK_ESCAPE /\ isKeyDown
       THEN /\ ddt_Cleared(clearDragState)
            /\ ddt_sinceEsc' = "esc"
       ELSE UNCHANGED <<ddt_state, ddt_sinceEsc>>

\* DragDropTracker.HandleKeyPress(keyCode, isKeyDown)
DragDropTracker_HandleKeyPress(keyCode, isKeyDown) ==
    /\ ddt_emit' = NoEvent
    /\ ddt_up' = NoCall
    /\ ddt_call' = [op |-> "key", position |-> Pos(0, 0),
                    keyCode |-> keyCode, isKeyDown |-> isKeyDown]
    /\ IF keyCode = VK_ESCAPE /\ isKeyDown /\ ddt_IsDragging
       THEN /\ ddt_Cleared(clearDragState)
            /\ ddt_sinceEsc' = "esc"
       ELSE UNCHANGED <<ddt_state, ddt_sinceEsc>>

\* DragDropTracker.HandleKeyPress called on its own
ddt_HandleKeyPress(keyCode, isKeyDown) ==
    /\ DragDropTracker_HandleKeyPress(keyCode, isKeyDown)
    /\ UNCHANGED <<now, hd_vars, tst_vars, tim_vars, btt_vars, rl_vars, rec_vars, cc_vars, go_vars>>

ddt_MouseDown ==
    \E p \in ddt_Positions, b \in MouseButtons, e \in ddt_Sources :
        ddt_HandleMouseDown(p, b, e)

ddt_MouseMove == \E p \in ddt_Positions : ddt_HandleMouseMove(p)

ddt_MouseUp ==
    \E p \in ddt_Positions, b \in MouseButtons, e \in ddt_Targets, c \in Clipboards :
        ddt_HandleMouseUp(p, b, e, c)

ddt_KeyPress == \E k \in ddt_KeyCodes, d \in BOOLEAN : ddt_HandleKeyPress(k, d)

ddt_Tick ==
    /\ \E d \in ddt_Steps : now + d <= MaxTime /\ now' = now + d
    /\ ddt_emit' = NoEvent
    /\ ddt_up' = NoCall
    /\ ddt_call' = NoCall
    /\ UNCHANGED <<ddt_state, ddt_sinceEsc>>
    /\ UNCHANGED <<hd_vars, tst_vars, tim_vars, btt_vars, rl_vars, rec_vars, cc_vars, go_vars>>

\* --------------------------------------------------------- TextInputManager
CompletionTimeout == 3000
pasteInterval == 50

MaxInputTime == 6000
MaxKeystrokes == 5
MaxStale == 1

Whitespace == {" ", "\t", "\n", "\r"}

\* strings.TrimSpace
RECURSIVE TrimLeft(_)
TrimLeft(str) ==
    IF str # <<>> /\ Head(str) \in Whitespace THEN TrimLeft(Tail(str)) ELSE str

RECURSIVE TrimRight(_)
TrimRight(str) ==
    IF str # <<>> /\ str[Len(str)] \in Whitespace
    THEN TrimRight(SubSeq(str, 1, Len(str) - 1)) ELSE str

TrimSpace(str) == TrimRight(TrimLeft(str))

\* two text fields of one window
T_name == UIElement(<<"e", "d", "i", "t">>, <<"N", "a", "m", "e">>, <<"w">>)
T_mail == UIElement(<<"e", "d", "i", "t">>, <<"E", "m", "a", "i", "l">>, <<"w">>)

tim_Elements == {Nil, T_name, T_mail}

\* the keystrokes: a letter, V, Tab, and one keystroke that carries two characters
Keystrokes ==
    {[keyCode |-> 65, char |-> <<"a">>], [keyCode |-> 86, char |-> <<"v">>],
     [keyCode |-> 9, char |-> <<>>], [keyCode |-> 65, char |-> <<"a", "b">>]}

tim_Steps == {3000}

\* getElementKey(element)
getElementKey(element) ==
    IF element = Nil THEN <<>>
    ELSE element.Role \o <<"|">> \o element.Name \o <<"|">> \o element.WindowTitle

\* a window as getCurrentUIElement reports it (role "window") whose title makes
\* it a text input for the recorder
W_search ==
    [Role |-> <<"w", "i", "n", "d", "o", "w">>, Name |-> <<"S", "e", "a", "r", "c", "h">>, ProcessID |-> 4,
     WindowTitle |-> <<"S", "e", "a", "r", "c", "h">>, ApplicationName |-> <<"n", "o", "t", "e", "p", "a", "d">>]

tim_Keys == {getElementKey(e) : e \in (tim_Elements \ {Nil}) \cup {W_search}}

\* getCurrentText(element): the empty string for every element
getCurrentText(element) == <<>>

\* getFieldName(element)
getFieldName(element) ==
    IF element = Nil \/ element.Name = <<>> THEN <<"U", "n", "k", "n", "o", "w", "n">> ELSE element.Name

\* getFieldType(element)
getFieldType(element) == IF element = Nil THEN <<"U", "n", "k", "n", "o", "w", "n">> ELSE element.Role

\* isElementFocused(element): true for every element
isElementFocused(element) == TRUE

\* isLikelyPasted(keyCode, char, tracker), called at time t
isLikelyPasted(keyCode, char, tracker, t) ==
    IF keyCode = 86 THEN TRUE
    ELSE LET timeSinceLastKeystroke == t - tracker.LastKeystroke
         IN timeSinceLastKeystroke < pasteInterval /\ Len(char) > 1

\* isLikelySuggestion(keyCode, char, tracker)
isLikelySuggestion(keyCode, char, tracker) ==
    IF keyCode = 9 \/ keyCode = 13 THEN tracker.KeystrokeCount > 0
    ELSE IF keyCode = 13 /\ tracker.KeystrokeCount > 2 THEN TRUE
    ELSE FALSE

\* completeTextInputInternal that emits whether or not the text changed
completeTextInputInternal_always(tracker, reason) ==
    LET finalText == getCurrentText(tracker.Element)
    IN [TextValue |-> finalText,
        FieldName |-> getFieldName(tracker.Element),
        FieldType |-> getFieldType(tracker.Element),
        InputMethod |-> tracker.InputMethod,
        TypingDurationMs |-> now - tracker.StartTime,
        KeystrokeCount |-> tracker.KeystrokeCount]

\* completeTextInputInternal(tracker, reason): the event it emits, or NoEvent
\* (stopping the tracker's timer is StopTimer below)
completeTextInputInternal(tracker, reason) ==
    LET finalText == getCurrentText(tracker.Element)
    IN IF finalText # tracker.InitialText /\ TrimSpace(finalText) # <<>>
       THEN [TextValue |-> finalText,
             FieldName |-> getFieldName(tracker.Element),
             FieldType |-> getFieldType(tracker.Element),
             InputMethod |-> tracker.InputMethod,
             TypingDurationMs |-> now - tracker.StartTime,
             KeystrokeCount |-> tracker.KeystrokeCount]
       ELSE NoEvent

\* the session that a call completed, as tim_done records it
Completion(elementKey, tracker, reason) ==
    [key |-> elementKey, reason |-> reason,
     initial |-> tracker.InitialText,
     final |-> getCurrentText(tracker.Element),
     count |-> tracker.KeystrokeCount,
     applied |-> tim_applied[elementKey],
     elapsed |-> now - tracker.LastKeystroke,
     event |-> completeTextInputInternal(tracker, reason)]

\* CompletionTimer.Stop() on the timer of the session of each key in keys: a
\* timer that has not fired is cancelled; the callback of one that has fired
\* still runs
StopTimer(stale, keys) ==
    [k \in tim_Keys |->
        IF k \in keys /\ tim_ActiveInputs[k].CompletionTimer.fired
        THEN stale[k] + 1 ELSE stale[k]]

\* time.AfterFunc(tim.CompletionTimeout, ...) called at time t
AfterFunc(t) == [due |-> t + CompletionTimeout, fired |-> FALSE]

Put(f, k, v) == [x \in DOMAIN f \cup {k} |-> IF x = k THEN v ELSE f[x]]
Remove(f, k) == [x \in DOMAIN f \ {k} |-> f[x]]

tim_Init ==
    /\ tim_ActiveInputs = <<>>
    /\ tim_stale = [k \in tim_Keys |-> 0]
    /\ tim_applied = <<>>
    /\ tim_done = {}
    /\ tim_call = NoCall
    /\ tim_sinceAll = FALSE

TimCall(op, elementKey) == [op |-> op, key |-> elementKey]

\* TextInputManager.StartTextInput(element)
TextInputManager_StartTextInput(element) ==
    /\ tim_call' = TimCall("start", getElementKey(element))
    /\ tim_sinceAll' = FALSE
    /\ IF element = Nil
       THEN /\ tim_done' = {}
            /\ UNCHANGED <<tim_ActiveInputs, tim_stale, tim_applied>>
       ELSE LET elementKey == getElementKey(element)
                exists == elementKey \in DOMAIN tim_ActiveInputs
                tracker == [Element |-> element,
                            StartTime |-> now,
                            LastKeystroke |-> now,
                            KeystrokeCount |-> 0,
                            InitialText |-> getCurrentText(element),
                            CurrentText |-> getCurrentText(element),
                            InputMethod |-> "Typed",
                            CompletionTimer |-> AfterFunc(now)]
            IN /\ tim_done' = IF exists
                              THEN {Completion(elementKey, tim_ActiveInputs[elementKey],
                                               "focus_change")}
                              ELSE {}
               /\ tim_stale' = IF exists THEN StopTimer(tim_stale, {elementKey})
                               ELSE tim_stale
               /\ \A k \in tim_Keys : tim_stale'[k] <= MaxStale
               /\ tim_ActiveInputs' = Put(tim_ActiveInputs, elementKey, tracker)
               /\ tim_applied' = Put(tim_applied, elementKey, 0)

\* TextInputManager.StartTextInput called on its own
tim_StartTextInput(element) ==
    /\ TextInputManager_StartTextInput(element)
    /\ UNCHANGED <<now, hd_vars, tst_vars, ddt_vars, btt_vars, rl_vars, rec_vars, cc_vars, go_vars>>

\* the loop body of HandleKeystroke that marks a suggestion whatever the method was
Keystroke_anySuggestion(tracker, keyCode, char) ==
    LET stamped == [tracker EXCEPT !.LastKeystroke = now,
                                   !.KeystrokeCount = @ + 1]
        method == IF stamped.KeystrokeCount = 1 THEN "Typed"
                  ELSE IF isLikelyPasted(keyCode, char, stamped, now) THEN "Pasted"
                  ELSE IF isLikelySuggestion(keyCode, char, stamped)
                       THEN "Suggestion"
                  ELSE stamped.InputMethod
    IN [stamped EXCEPT !.InputMethod = method, !.CompletionTimer = AfterFunc(now)]

\* the tracker after HandleKeystroke(keyCode, char) has picked it (the uint32
\* KeystrokeCount stays far below its width: see MaxKeystrokes)
Keystroke(tracker, keyCode, char) ==
    LET stamped == [tracker EXCEPT !.LastKeystroke = now,
                                   !.KeystrokeCount = @ + 1]
        method == IF stamped.KeystrokeCount = 1 THEN "Typed"
                  ELSE IF isLikelyPasted(keyCode, char, stamped, now) THEN "Pasted"
                  ELSE IF /\ stamped.InputMethod = "Typed"
                          /\ isLikelySuggestion(keyCode, char, stamped)
                       THEN "Suggestion"
                  ELSE stamped.InputMethod
    IN [stamped EXCEPT !.InputMethod = method, !.CompletionTimer = AfterFunc(now)]

\* TextInputManager.HandleKeystroke(keyCode, char): the range over the map
\* visits the sessions in any order, and the first one gets the keystroke
TextInputManager_HandleKeystroke(keyCode, char) ==
    /\ tim_done' = {}
    /\ tim_call' = TimCall("other", <<>>)
    /\ UNCHANGED tim_sinceAll
    /\ IF DOMAIN tim_ActiveInputs = {}
       THEN UNCHANGED <<tim_ActiveInputs, tim_stale, tim_applied>>
       ELSE \E k \in DOMAIN tim_ActiveInputs :
               /\ isElementFocused(tim_ActiveInputs[k].Element)
               /\ tim_ActiveInputs[k].KeystrokeCount < MaxKeystrokes
               /\ tim_ActiveInputs' =
                     [tim_ActiveInputs EXCEPT ![k] = Keystroke(@, keyCode, char)]
               /\ tim_stale' = StopTimer(tim_stale, {k})
               /\ tim_stale'[k] <= MaxStale
               /\ tim_applied' = [tim_applied EXCEPT ![k] = @ + 1]

\* TextInputManager.HandleKeystroke called on its own
tim_HandleKeystroke(keyCode, char) ==
    /\ TextInputManager_HandleKeystroke(keyCode, char)
    /\ UNCHANGED <<now, hd_vars, tst_vars, ddt_vars, btt_vars, rl_vars, rec_vars, cc_vars, go_vars>>

\* CompleteTextInput that completes the session and leaves it in ActiveInputs
tim_CompleteTextInput_keeps(elementKey, reason, stops) ==
    IF elementKey \in DOMAIN tim_ActiveInputs
    THEN /\ tim_done' = {Completion(elementKey, tim_ActiveInputs[elementKey], reason)}
         /\ tim_stale' = StopTimer(tim_stale, stops)
         /\ UNCHANGED <<tim_ActiveInputs, tim_applied>>
    ELSE /\ tim_done' = {}
         /\ UNCHANGED <<tim_ActiveInputs, tim_applied, tim_stale>>

\* TextInputManager.CompleteTextInput(elementKey, reason); stops is the set of
\* keys whose timer the call stops (none when the call is that timer's callback)
tim_CompleteTextInput(elementKey, reason, stops) ==
    IF elementKey \in DOMAIN tim_ActiveInputs
    THEN /\ tim_done' = {Completion(elementKey, tim_ActiveInputs[elementKey], reason)}
         /\ tim_ActiveInputs' = Remove(tim_ActiveInputs, elementKey)
         /\ tim_applied' = Remove(tim_applied, elementKey)
         /\ tim_stale' = StopTimer(tim_stale, stops)
    ELSE /\ tim_done' = {}
         /\ UNCHANGED <<tim_ActiveInputs, tim_applied, tim_stale>>

\* the timer of the session of elementKey fires: its callback is started
tim_TimerFire(elementKey) ==
    /\ elementKey \in DOMAIN tim_ActiveInputs
    /\ ~tim_ActiveInputs[elementKey].CompletionTimer.fired
    /\ now >= tim_ActiveInputs[elementKey].CompletionTimer.due
    /\ tim_ActiveInputs' =
          [tim_ActiveInputs EXCEPT ![elementKey].CompletionTimer.fired = TRUE]
    /\ tim_done' = {}
    /\ tim_call' = TimCall("other", <<>>)
    /\ UNCHANGED tim_sinceAll
    /\ UNCHANGED <<tim_stale, tim_applied>>
    /\ UNCHANGED <<now, hd_vars, tst_vars, ddt_vars, btt_vars, rl_vars, rec_vars, cc_vars, go_vars>>

\* the callback of the session's own timer gets the lock
tim_TimerRun(elementKey) ==
    /\ elementKey \in DOMAIN tim_ActiveInputs
    /\ tim_ActiveInputs[elementKey].CompletionTimer.fired
    /\ tim_CompleteTextInput(elementKey, "timeout", {})
    /\ tim_call' = TimCall("timer", elementKey)
    /\ UNCHANGED tim_sinceAll
    /\ UNCHANGED <<now, hd_vars, tst_vars, ddt_vars, btt_vars, rl_vars, rec_vars, cc_vars, go_vars>>

\* the callback of a timer that fired before it was stopped gets the lock
tim_StaleRun(elementKey) ==
    /\ tim_stale[elementKey] > 0
    /\ tim_call' = TimCall("timer", elementKey)
    /\ UNCHANGED tim_sinceAll
    /\ LET stale == [tim_stale EXCEPT ![elementKey] = @ - 1]
       IN IF elementKey \in DOMAIN tim_ActiveInputs
          THEN /\ tim_done' = {Completion(elementKey, tim_ActiveInputs[elementKey],
                                          "timeout")}
               /\ tim_ActiveInputs' = Remove(tim_ActiveInputs, elementKey)
               /\ tim_applied' = Remove(tim_applied, elementKey)
               /\ tim_stale' = StopTimer(stale, {elementKey})
          ELSE /\ tim_done' = {}
               /\ tim_stale' = stale
               /\ UNCHANGED <<tim_ActiveInputs, tim_applied>>
    /\ UNCHANGED <<now, hd_vars, tst_vars, ddt_vars, btt_vars, rl_vars, rec_vars, cc_vars, go_vars>>

\* CompleteAllActiveInputs that completes the sessions and does not delete them
tim_CompleteAllActiveInputs_keeps ==
    /\ tim_done' = {Completion(k, tim_ActiveInputs[k], "session_end") :
                       k \in DOMAIN tim_ActiveInputs}
    /\ tim_stale' = StopTimer(tim_stale, DOMAIN tim_ActiveInputs)
    /\ \A k \in tim_Keys : tim_stale'[k] <= MaxStale
    /\ UNCHANGED <<tim_ActiveInputs, tim_applied>>
    /\ tim_call' = TimCall(IF tim_call # NoCall /\ tim_call.op \in {"all", "all_again"}
                            THEN "all_again" ELSE "all", <<>>)
    /\ tim_sinceAll' = TRUE
    /\ UNCHANGED <<now, hd_vars, tst_vars, ddt_vars, btt_vars, rl_vars, rec_vars, cc_vars, go_vars>>

\* TextInputManager.CompleteAllActiveInputs()
TextInputManager_CompleteAllActiveInputs ==
    /\ tim_done' = {Completion(k, tim_ActiveInputs[k], "session_end") :
                       k \in DOMAIN tim_ActiveInputs}
    /\ tim_stale' = StopTimer(tim_stale, DOMAIN tim_ActiveInputs)
    /\ \A k \in tim_Keys : tim_stale'[k] <= MaxStale
    /\ tim_ActiveInputs' = <<>>
    /\ tim_applied' = <<>>
    /\ tim_call' = TimCall(IF tim_call # NoCall /\ tim_call.op \in {"all", "all_again"}
                            THEN "all_again" ELSE "all", <<>>)
    /\ tim_sinceAll' = TRUE

\* TextInputManager.CompleteAllActiveInputs called on its own
tim_CompleteAllActiveInputs ==
    /\ TextInputManager_CompleteAllActiveInputs
    /\ UNCHANGED <<now, hd_vars, tst_vars, ddt_vars, btt_vars, rl_vars, rec_vars, cc_vars, go_vars>>

tim_Start == \E e \in tim_Elements : tim_StartTextInput(e)

tim_Key == \E s \in Keystrokes : tim_HandleKeystroke(s.keyCode, s.char)

tim_Fire == \E k \in tim_Keys : tim_TimerFire(k)

tim_Run == \E k \in tim_Keys : tim_TimerRun(k)

tim_Stale == \E k \in tim_Keys : tim_StaleRun(k)

tim_Tick ==
    /\ \E d \in tim_Steps : now + d <= MaxInputTime /\ now' = now + d
    /\ tim_done' = {}
    /\ tim_call' = TimCall("other", <<>>)
    /\ UNCHANGED <<tim_ActiveInputs, tim_stale, tim_applied, tim_sinceAll>>
    /\ UNCHANGED <<hd_vars, tst_vars, ddt_vars, btt_vars, rl_vars, rec_vars, cc_vars, go_vars>>

\* -------------------------------------------------------- BrowserTabTracker
maxRecentHotkeys == 5
maxRecentClicks == 10

\* the character U+2014
EmDash == "em dash"

\* \s of a regular expression
RegexSpace == {" ", "\t", "\n", "\f", "\r"}

HasPrefixAt(str, i, prefix) ==
    /\ i + Len(prefix) - 1 <= Len(str)
    /\ SubSeq(str, i, i + Len(prefix) - 1) = prefix

\* `https?://` at index i of str: the index that follows it, 0 when it is not there
SchemeEnd(str, i) ==
    IF HasPrefixAt(str, i, <<"h", "t", "t", "p", "s", ":", "/", "/">>) THEN i + 8
    ELSE IF HasPrefixAt(str, i, <<"h", "t", "t", "p", ":", "/", "/">>) THEN i + 7
    ELSE 0

\* `[^...]+` from index i of str: the index of the last character of the
\* longest run of characters outside excluded (i - 1 when the run is empty)
RECURSIVE RunEnd(_, _, _)
RunEnd(str, i, excluded) ==
    IF i <= Len(str) /\ str[i] \notin excluded
    THEN RunEnd(str, i + 1, excluded) ELSE i - 1

\* the indexes of str where `https?://[^...]+` matches
MatchStarts(str, excluded) ==
    {i \in 1..Len(str) :
        /\ SchemeEnd(str, i) # 0
        /\ RunEnd(str, SchemeEnd(str, i), excluded) >= SchemeEnd(str, i)}

\* Regexp.FindString of `https?://[^...]+`: the leftmost match, the empty
\* string when there is none
FindURL(str, excluded) ==
    IF MatchStarts(str, excluded) = {} THEN <<>>
    ELSE LET i == MinOf(MatchStarts(str, excluded))
         IN SubSeq(str, i, RunEnd(str, SchemeEnd(str, i), excluded))

\* strings.TrimRight(str, cutset)
RECURSIVE TrimRightCut(_, _)
TrimRightCut(str, cutset) ==
    IF str # <<>> /\ str[Len(str)] \in cutset
    THEN TrimRightCut(SubSeq(str, 1, Len(str) - 1), cutset) ELSE str

\* strings.TrimLeft(str, cutset)
RECURSIVE TrimLeftCut(_, _)
TrimLeftCut(str, cutset) ==
    IF str # <<>> /\ Head(str) \in cutset THEN TrimLeftCut(Tail(str), cutset) ELSE str

\* the class `[^\s\-—]` of the four patterns of URLPatterns (chrome, firefox,
\* edge and safari have the same pattern), and `[^\s\-—\|\[\]]` of the fallback
urlExcluded == RegexSpace \cup {"-", EmDash}
fallbackExcluded == urlExcluded \cup {"|", "[", "]"}

\* extractURL(windowTitle)
extractURL(windowTitle) ==
    IF windowTitle = <<>> THEN <<>>
    ELSE IF FindURL(windowTitle, urlExcluded) # <<>>
    THEN FindURL(windowTitle, urlExcluded)
    ELSE IF FindURL(windowTitle, fallbackExcluded) # <<>>
    THEN TrimRightCut(FindURL(windowTitle, fallbackExcluded), {".", ",", ";", ")"})
    ELSE <<>>

\* extractDomain(url): the first group of `https?://([^/]+)`
extractDomain(url) ==
    IF MatchStarts(url, {"/"}) = {} THEN <<>>
    ELSE LET i == MinOf(MatchStarts(url, {"/"}))
         IN SubSeq(url, SchemeEnd(url, i), RunEnd(url, SchemeEnd(url, i), {"/"}))

\* isBackForwardNavigation(fromURL, toURL)
isBackForwardNavigation(fromURL, toURL) ==
    IF fromURL = <<>> \/ toURL = <<>> THEN FALSE
    ELSE extractDomain(fromURL) = extractDomain(toURL) /\ extractDomain(fromURL) # <<>>

browsers ==
    <<<<"c", "h", "r", "o", "m", "e">>, <<"f", "i", "r", "e", "f", "o", "x">>, <<"e", "d", "g", "e">>, <<"s", "a", "f", "a", "r", "i">>, <<"o", "p", "e", "r", "a">>, <<"b", "r", "a", "v", "e">>, <<"v", "i", "v", "a", "l", "d", "i">>>>

\* isBrowserWindow(element)
isBrowserWindow(element) ==
    IF element = Nil THEN FALSE
    ELSE LET appName == ToLower(element.ApplicationName)
             windowTitle == ToLower(element.WindowTitle)
         IN \E i \in 1..Len(browsers) :
               Contains(appName, browsers[i]) \/ Contains(windowTitle, browsers[i])

\* BrowserPatterns: the browser and the alternatives of its pattern
browserPatterns ==
    <<[browser |-> <<"C", "h", "r", "o", "m", "e">>, alternatives |-> {<<"c", "h", "r", "o", "m", "e">>, <<"c", "h", "r", "o", "m", "i", "u", "m">>}],
      [browser |-> <<"F", "i", "r", "e", "f", "o", "x">>, alternatives |-> {<<"f", "i", "r", "e", "f", "o", "x">>, <<"m", "o", "z", "i", "l", "l", "a">>}],
      [browser |-> <<"E", "d", "g", "e">>, alternatives |-> {<<"e", "d", "g", "e">>, <<"m", "s", "e", "d", "g", "e">>}],
      [browser |-> <<"S", "a", "f", "a", "r", "i">>, alternatives |-> {<<"s", "a", "f", "a", "r", "i">>}],
      [browser |-> <<"O", "p", "e", "r", "a">>, alternatives |-> {<<"o", "p", "e", "r", "a">>}]>>

\* getBrowserName(appName): the names it can return; the range over the map
\* BrowserPatterns visits the patterns in any order and the first match wins
getBrowserName(appName) ==
    IF appName = <<>> THEN {<<"U", "n", "k", "n", "o", "w", "n">>}
    ELSE LET matching == {i \in 1..Len(browserPatterns) :
                             \E a \in browserPatterns[i].alternatives :
                                 Contains(ToLower(appName), a)}
         IN IF matching = {} THEN {appName}
            ELSE {browserPatterns[i].browser : i \in matching}

\* strings.Replace(str, old, "", 1) for a non-empty old
RemoveFirstOccurrence(str, old) ==
    LET at == {i \in 1..Len(str) : HasPrefixAt(str, i, old)}
    IN IF at = {} THEN str
       ELSE SubSeq(str, 1, MinOf(at) - 1) \o SubSeq(str, MinOf(at) + Len(old), Len(str))

\* strings.Replace(str, old, "", -1) for a non-empty old
RECURSIVE RemoveAllOccurrences(_, _)
RemoveAllOccurrences(str, old) ==
    LET at == {i \in 1..Len(str) : HasPrefixAt(str, i, old)}
    IN IF at = {} THEN str
       ELSE SubSeq(str, 1, MinOf(at) - 1)
            \o RemoveAllOccurrences(SubSeq(str, MinOf(at) + Len(old), Len(str)), old)

\* the loop of extractTitle that removes " - Chrome", " - Firefox", ...
RECURSIVE RemoveBrowserSuffixes(_, _)
RemoveBrowserSuffixes(title, i) ==
    IF i > Len(browserPatterns) THEN title
    ELSE RemoveBrowserSuffixes(
             RemoveAllOccurrences(title, <<" ", "-", " ">> \o browserPatterns[i].browser), i + 1)

titleCutset == {"-", EmDash, "|", "[", "]", "(", ")", "{", "}"}

\* extractTitle(windowTitle)
extractTitle(windowTitle) ==
    IF windowTitle = <<>> THEN <<>>
    ELSE LET url == extractURL(windowTitle)
             noURL == IF url # <<>> THEN RemoveFirstOccurrence(windowTitle, url)
                      ELSE windowTitle
             noBrowser == TrimSpace(RemoveBrowserSuffixes(noURL, 1))
         IN TrimSpace(TrimRightCut(TrimLeftCut(noBrowser, titleCutset), titleCutset))

navigationHotkeys ==
    {"Ctrl+T", "Ctrl+Shift+T", "Ctrl+W", "Ctrl+F4",
     "Ctrl+Tab", "Ctrl+Shift+Tab", "Ctrl+L", "F6",
     "Ctrl+1", "Ctrl+2", "Ctrl+3", "Ctrl+4", "Ctrl+5",
     "Ctrl+6", "Ctrl+7", "Ctrl+8", "Ctrl+9",
     "Ctrl+R", "F5", "Ctrl+F5", "Ctrl+Shift+R",
     "Alt+Left", "Alt+Right", "Backspace"}

\* isBrowserNavigationHotkey(combination)
isBrowserNavigationHotkey(combination) == combination \in navigationHotkeys

\* the switch of determineNavigationMethod on one hotkey: the method it
\* returns, "" when no case holds
methodOfHotkey(hotkey) ==
    IF hotkey \in {"Ctrl+T", "Ctrl+Shift+T"} THEN "NewTabButton"
    ELSE IF hotkey \in {"Ctrl+W", "Ctrl+F4"} THEN "CloseButton"
    ELSE IF hotkey \in {"Ctrl+Tab", "Ctrl+Shift+Tab", "Ctrl+1", "Ctrl+2", "Ctrl+3",
                        "Ctrl+4", "Ctrl+5", "Ctrl+6", "Ctrl+7", "Ctrl+8", "Ctrl+9"}
    THEN "KeyboardShortcut"
    ELSE IF hotkey \in {"Ctrl+L", "F6"} THEN "AddressBar"
    ELSE ""

\* determineNavigationMethod with the four cases tried in turn over the whole
\* list of hotkeys
determineNavigationMethod_byCategory(browserState) ==
    LET methods == {methodOfHotkey(browserState.RecentHotkeys[i]) :
                       i \in 1..Len(browserState.RecentHotkeys)}
    IN IF "NewTabButton" \in methods THEN "NewTabButton"
       ELSE IF "CloseButton" \in methods THEN "CloseButton"
       ELSE IF "KeyboardShortcut" \in methods THEN "KeyboardShortcut"
       ELSE IF "AddressBar" \in methods THEN "AddressBar"
       ELSE IF Len(browserState.RecentClicks) > 0 THEN "TabClick"
       ELSE "Other"

\* the loop of determineNavigationMethod from hotkey i; "" when it ends
\* without a return
RECURSIVE methodFromHotkeys(_, _)
methodFromHotkeys(hotkeys, i) ==
    IF i > Len(hotkeys) THEN ""
    ELSE IF methodOfHotkey(hotkeys[i]) # "" THEN methodOfHotkey(hotkeys[i])
    ELSE methodFromHotkeys(hotkeys, i + 1)

\* determineNavigationMethod(browserState)
determineNavigationMethod(browserState) ==
    IF methodFromHotkeys(browserState.RecentHotkeys, 1) # ""
    THEN methodFromHotkeys(browserState.RecentHotkeys, 1)
    ELSE IF Len(browserState.RecentClicks) > 0 THEN "TabClick"
    ELSE "Other"

\* a window as getCurrentUIElement reports it
WindowElement(processID, windowTitle, applicationName) ==
    [Role |-> <<"w", "i", "n", "d", "o", "w">>, Name |-> windowTitle, ProcessID |-> processID,
     WindowTitle |-> windowTitle, ApplicationName |-> applicationName]

\* the windows: a browser (process 1) with a title without URL and titles with
\* two URLs, a second browser (process 2), and an editor that is no browser
W1_plain == WindowElement(1, <<"E", "x", " ", "-", " ", "C", "h", "r", "o", "m", "e">>, <<"c", "h", "r", "o", "m", "e", ".", "e", "x", "e">>)
W1_a == WindowElement(1, <<"h", "t", "t", "p", "s", ":", "/", "/", "a", "/", "x", " ", "-", " ", "C", "h", "r", "o", "m", "e">>, <<"c", "h", "r", "o", "m", "e", ".", "e", "x", "e">>)
W1_b == WindowElement(1, <<"h", "t", "t", "p", ":", "/", "/", "b", " ", "-", " ", "C", "h", "r", "o", "m", "e">>, <<"c", "h", "r", "o", "m", "e", ".", "e", "x", "e">>)
W2_plain == WindowElement(2, <<"M", "o", "z", "i", "l", "l", "a", " ", "F", "i", "r", "e", "f", "o", "x">>, <<"f", "i", "r", "e", "f", "o", "x">>)
W2_b == WindowElement(2, <<"h", "t", "t", "p", ":", "/", "/", "b", " ", "-", " ", "F", "i", "r", "e", "f", "o", "x">>, <<"f", "i", "r", "e", "f", "o", "x">>)
W3_editor == WindowElement(3, <<"n", "o", "t", "e", "s">>, <<"n", "o", "t", "e", "p", "a", "d">>)

btt_Steps == {300}

btt_Init ==
    /\ btt_BrowserStates = <<>>
    /\ btt_emit = NoEvent
    /\ btt_call = NoCall

\* the call last made: the handler, its element and its other argument
BttCall(op, element, input) == [op |-> op, element |-> element, input |-> input]

urlChanged_anyTitle(currentURL, browserState) == currentURL # browserState.CurrentURL

\* the condition of the navigation branch: currentURL != "" && currentURL != browserState.CurrentURL
urlChanged(currentURL, browserState) ==
    currentURL # <<>> /\ currentURL # browserState.CurrentURL

\* HandleWindowChange that stores the extracted URL even when it is empty
BrowserTabTracker_HandleWindowChange_anyURL(element) ==
    /\ btt_call' = BttCall("window", element, Nil)
    /\ IF element = Nil \/ ~isBrowserWindow(element)
       THEN /\ btt_emit' = NoEvent
            /\ UNCHANGED btt_BrowserStates
       ELSE LET processID == element.ProcessID
                windowTitle == element.WindowTitle
                currentURL == extractURL(windowTitle)
                exists == processID \in DOMAIN btt_BrowserStates
            IN IF ~exists
               THEN /\ btt_BrowserStates' =
                          Put(btt_BrowserStates, processID,
                              [ProcessID |-> processID,
                               WindowTitle |-> windowTitle,
                               CurrentURL |-> currentURL,
                               LastURLChange |-> now,
                               TabCount |-> 1,
                               LastTabAction |-> ZeroTime,
                               RecentHotkeys |-> <<>>,
                               RecentClicks |-> <<>>])
                    /\ btt_emit' = NoEvent
               ELSE LET browserState == btt_BrowserStates[processID]
                        changed == urlChanged(currentURL, browserState)
                        navigated == [browserState EXCEPT !.CurrentURL = currentURL,
                                                          !.WindowTitle = windowTitle,
                                                          !.LastURLChange = now,
                                                          !.LastTabAction = now]
                        afterIf == IF changed THEN navigated ELSE browserState
                        seen == [afterIf EXCEPT
                                    !.WindowTitle = windowTitle,
                                    !.CurrentURL = currentURL]
                    IN /\ btt_BrowserStates' = [btt_BrowserStates EXCEPT ![processID] = seen]
                       /\ IF changed
                          THEN \E browser \in getBrowserName(element.ApplicationName) :
                                  btt_emit' =
                                     [Action |-> "Switched",
                                      Method |-> determineNavigationMethod(browserState),
                                      ToURL |-> currentURL,
                                      FromURL |-> browserState.CurrentURL,
                                      ToTitle |-> extractTitle(windowTitle),
                                      FromTitle |-> extractTitle(browserState.WindowTitle),
                                      Browser |-> browser,
                                      PageDwellTimeMs |-> Since(browserState.LastURLChange),
                                      IsBackForward |->
                                          isBackForwardNavigation(browserState.CurrentURL,
                                                                  currentURL)]
                          ELSE btt_emit' = NoEvent

\* BrowserTabTracker.HandleWindowChange(element)
BrowserTabTracker_HandleWindowChange(element) ==
    /\ btt_call' = BttCall("window", element, Nil)
    /\ IF element = Nil \/ ~isBrowserWindow(element)
       THEN /\ btt_emit' = NoEvent
            /\ UNCHANGED btt_BrowserStates
       ELSE LET processID == element.ProcessID
                windowTitle == element.WindowTitle
                currentURL == extractURL(windowTitle)
                exists == processID \in DOMAIN btt_BrowserStates
            IN IF ~exists
               THEN /\ btt_BrowserStates' =
                          Put(btt_BrowserStates, processID,
                              [ProcessID |-> processID,
                               WindowTitle |-> windowTitle,
                               CurrentURL |-> currentURL,
                               LastURLChange |-> now,
                               TabCount |-> 1,
                               LastTabAction |-> ZeroTime,
                               RecentHotkeys |-> <<>>,
                               RecentClicks |-> <<>>])
                    /\ btt_emit' = NoEvent
               ELSE LET browserState == btt_BrowserStates[processID]
                        changed == urlChanged(currentURL, browserState)
                        navigated == [browserState EXCEPT !.CurrentURL = currentURL,
                                                          !.WindowTitle = windowTitle,
                                                          !.LastURLChange = now,
                                                          !.LastTabAction = now]
                        afterIf == IF changed THEN navigated ELSE browserState
                        seen == [afterIf EXCEPT
                                    !.WindowTitle = windowTitle,
                                    !.CurrentURL = IF currentURL # <<>> THEN currentURL ELSE @]
                    IN /\ btt_BrowserStates' = [btt_BrowserStates EXCEPT ![processID] = seen]
                       /\ IF changed
                          THEN \E browser \in getBrowserName(element.ApplicationName) :
                                  btt_emit' =
                                     [Action |-> "Switched",
                                      Method |-> determineNavigationMethod(browserState),
                                      ToURL |-> currentURL,
                                      FromURL |-> browserState.CurrentURL,
                                      ToTitle |-> extractTitle(windowTitle),
                                      FromTitle |-> extractTitle(browserState.WindowTitle),
                                      Browser |-> browser,
                                      PageDwellTimeMs |-> Since(browserState.LastURLChange),
                                      IsBackForward |->
                                          isBackForwardNavigation(browserState.CurrentURL,
                                                                  currentURL)]
                          ELSE btt_emit' = NoEvent

\* BrowserTabTracker.HandleWindowChange called on its own
btt_HandleWindowChange(element) ==
    /\ BrowserTabTracker_HandleWindowChange(element)
    /\ UNCHANGED <<now, hd_vars, tst_vars, ddt_vars, tim_vars, rl_vars, rec_vars, cc_vars, go_vars>>

AppendRecent_dropsNewest(list, entry, capacity) ==
    IF Len(list) >= capacity THEN list ELSE Append(list, entry)

\* append(list, entry) and the slice list[1:] once the list is longer than capacity
AppendRecent(list, entry, capacity) ==
    IF Len(Append(list, entry)) > capacity THEN Tail(Append(list, entry))
    ELSE Append(list, entry)

btt_HandleHotkey_seeds(combination, activeElement) ==
    /\ btt_call' = BttCall("hotkey", activeElement, combination)
    /\ btt_emit' = NoEvent
    /\ IF activeElement = Nil \/ ~isBrowserWindow(activeElement)
       THEN UNCHANGED btt_BrowserStates
       ELSE btt_BrowserStates' =
               Put(btt_BrowserStates, activeElement.ProcessID,
                   [ProcessID |-> activeElement.ProcessID,
                    WindowTitle |-> activeElement.WindowTitle,
                    CurrentURL |-> <<>>,
                    LastURLChange |-> now,
                    TabCount |-> 1,
                    LastTabAction |-> ZeroTime,
                    RecentHotkeys |-> <<combination>>,
                    RecentClicks |-> <<>>])
    /\ UNCHANGED <<now, hd_vars, tst_vars, ddt_vars, tim_vars, rl_vars, rec_vars, cc_vars, go_vars>>

\* BrowserTabTracker.HandleHotkey(combination, activeElement)
BrowserTabTracker_HandleHotkey(combination, activeElement) ==
    /\ btt_call' = BttCall("hotkey", activeElement, combination)
    /\ btt_emit' = NoEvent
    /\ IF activeElement = Nil \/ ~isBrowserWindow(activeElement)
       THEN UNCHANGED btt_BrowserStates
       ELSE IF /\ isBrowserNavigationHotkey(combination)
               /\ activeElement.ProcessID \in DOMAIN btt_BrowserStates
       THEN btt_BrowserStates' =
               [btt_BrowserStates EXCEPT ![activeElement.ProcessID].RecentHotkeys =
                   AppendRecent(@, combination, maxRecentHotkeys)]
       ELSE UNCHANGED btt_BrowserStates

\* BrowserTabTracker.HandleHotkey called on its own
btt_HandleHotkey(combination, activeElement) ==
    /\ BrowserTabTracker_HandleHotkey(combination, activeElement)
    /\ UNCHANGED <<now, hd_vars, tst_vars, ddt_vars, tim_vars, rl_vars, rec_vars, cc_vars, go_vars>>

\* BrowserTabTracker.HandleClick(position, activeElement)
BrowserTabTracker_HandleClick(position, activeElement) ==
    /\ btt_call' = BttCall("click", activeElement, position)
    /\ btt_emit' = NoEvent
    /\ IF activeElement = Nil \/ ~isBrowserWindow(activeElement)
       THEN UNCHANGED btt_BrowserStates
       ELSE IF activeElement.ProcessID \in DOMAIN btt_BrowserStates
       THEN btt_BrowserStates' =
               [btt_BrowserStates EXCEPT ![activeElement.ProcessID].RecentClicks =
                   AppendRecent(@, position, maxRecentClicks)]
       ELSE UNCHANGED btt_BrowserStates

\* BrowserTabTracker.HandleClick called on its own
btt_HandleClick(position, activeElement) ==
    /\ BrowserTabTracker_HandleClick(position, activeElement)
    /\ UNCHANGED <<now, hd_vars, tst_vars, ddt_vars, tim_vars, rl_vars, rec_vars, cc_vars, go_vars>>

btt_Tick ==
    /\ \E d \in btt_Steps : now + d <= MaxTime /\ now' = now + d
    /\ btt_emit' = NoEvent
    /\ btt_call' = BttCall("tick", Nil, Nil)
    /\ UNCHANGED btt_BrowserStates
    /\ UNCHANGED <<hd_vars, tst_vars, ddt_vars, tim_vars, rl_vars, rec_vars, cc_vars, go_vars>>

MaxRecorded == 1      \* hotkeys, and clicks, recorded for one browser between its window changes and clock ticks
MaxMethodHotkeys == 2 \* hotkeys recorded for the browser whose navigation method is inferred

RecordedHotkeys(e) ==
    IF e = Nil \/ e.ProcessID \notin DOMAIN btt_BrowserStates THEN 0
    ELSE Len(btt_BrowserStates[e.ProcessID].RecentHotkeys)

RecordedClicks(e) ==
    IF e = Nil \/ e.ProcessID \notin DOMAIN btt_BrowserStates THEN 0
    ELSE Len(btt_BrowserStates[e.ProcessID].RecentClicks)

\* window changes of both browsers and of the editor; hotkeys and clicks in
\* the first browser, in the editor and with no element
btt_WindowChange ==
    \E e \in {Nil, W3_editor, W1_plain, W1_a, W1_b, W2_b} : btt_HandleWindowChange(e)

btt_Hotkey ==
    \E c \in {"Ctrl+T", "Ctrl+S"}, e \in {Nil, W3_editor, W1_plain} :
        /\ RecordedHotkeys(e) < MaxRecorded
        /\ btt_HandleHotkey(c, e)

btt_Click ==
    \E e \in {Nil, W3_editor, W1_plain} :
        /\ RecordedClicks(e) < MaxRecorded
        /\ btt_HandleClick(Pos(0, 0), e)

\* one browser going between two URLs, with hotkeys of each of the four
\* categories of determineNavigationMethod and one navigation hotkey of none
btt_MethodWindowChange == \E e \in {W1_a, W1_b} : btt_HandleWindowChange(e)

btt_MethodHotkey ==
    \E c \in {"Ctrl+T", "Ctrl+W", "Ctrl+Tab", "Ctrl+L", "Ctrl+R"} :
        /\ RecordedHotkeys(W1_a) < MaxMethodHotkeys
        /\ btt_HandleHotkey(c, W1_a)

btt_MethodClick ==
    /\ RecordedClicks(W1_a) < MaxRecorded
    /\ btt_HandleClick(Pos(0, 0), W1_a)

\* one browser that receives two hotkeys in any order, and clicks at two
\* positions, each click away from the position of the one before, until and
\* after its buffers overflow
LastClick(e) ==
    btt_BrowserStates[e.ProcessID].RecentClicks[RecordedClicks(e)]

btt_BufferWindowChange == btt_HandleWindowChange(W1_plain)

btt_BufferHotkey == \E c \in {"Ctrl+T", "Ctrl+W"} : btt_HandleHotkey(c, W1_plain)

btt_BufferClick ==
    \E p \in {Pos(0, 0), Pos(1, 1)} :
        /\ RecordedClicks(W1_plain) > 0 => p # LastClick(W1_plain)
        /\ btt_HandleClick(p, W1_plain)

rl_Init ==
    /\ rl_limiter = Nil
    /\ rl_ret = NoCall
    /\ rl_grants = <<>>

\* ---------------------------------------------------------------------------
\* RateLimiter (a fixed window counter), as the recorder creates and calls it

MaxRateTime == 2000   \* the clock of the rate limiter stops advancing here
rl_Steps == {500}
rl_MaxEvents == {1, 2, 5}

\* the window of CreateRateLimiter: time.Second
rateWindowSize == 1000

\* NewRateLimiter(maxEvents, windowSize)
NewRateLimiter(maxEvents, windowSize) ==
    [MaxEvents |-> maxEvents, WindowSize |-> windowSize,
     EventCount |-> 0, WindowStart |-> now]

windowElapsed_strictly(limiter, at) == at - limiter.WindowStart > limiter.WindowSize

\* now.Sub(rl.WindowStart) >= rl.WindowSize
windowElapsed(limiter, at) == at - limiter.WindowStart >= limiter.WindowSize

\* Allow that rejects a call only once the count is past the maximum
Allow_pastLimit(limiter, at) ==
    LET window == IF windowElapsed(limiter, at)
                  THEN [limiter EXCEPT !.EventCount = 0, !.WindowStart = at]
                  ELSE limiter
    IN IF window.EventCount > window.MaxEvents
       THEN [limiter |-> window, ret |-> FALSE]
       ELSE [limiter |-> [window EXCEPT !.EventCount = @ + 1], ret |-> TRUE]

\* RateLimiter.Allow() at time `at`: the limiter afterwards and the result
Allow(limiter, at) ==
    LET window == IF windowElapsed(limiter, at)
                  THEN [limiter EXCEPT !.EventCount = 0, !.WindowStart = at]
                  ELSE limiter
    IN IF window.EventCount >= window.MaxEvents
       THEN [limiter |-> window, ret |-> FALSE]
       ELSE [limiter |-> [window EXCEPT !.EventCount = @ + 1], ret |-> TRUE]

\* the call last made on the limiter and what it returned
RlCall(op, ret) == [op |-> op, ret |-> ret]

\* the recorder's constructor creates the limiter, once
rl_New ==
    /\ rl_limiter = Nil
    /\ \E maxEvents \in rl_MaxEvents :
          rl_limiter' = NewRateLimiter(maxEvents, rateWindowSize)
    /\ rl_ret' = RlCall("new", TRUE)
    /\ UNCHANGED rl_grants
    /\ UNCHANGED <<now, hd_vars, tst_vars, ddt_vars, tim_vars, btt_vars, rec_vars, cc_vars, go_vars>>

\* one call of Allow; rl_grants keeps, for every call that returned true, its
\* time and the start of the window it was counted in
RateLimiter_Allow ==
    /\ rl_limiter # Nil
    /\ rl_limiter' = Allow(rl_limiter, now).limiter
    /\ rl_ret' = RlCall("allow", Allow(rl_limiter, now).ret)
    /\ rl_grants' = IF Allow(rl_limiter, now).ret
                    THEN Append(rl_grants,
                                [at |-> now,
                                 window |-> Allow(rl_limiter, now).limiter.WindowStart])
                    ELSE rl_grants

\* RateLimiter.Allow called on its own
rl_Allow ==
    /\ RateLimiter_Allow
    /\ UNCHANGED <<now, hd_vars, tst_vars, ddt_vars, tim_vars, btt_vars, rec_vars, cc_vars, go_vars>>

rl_Tick ==
    /\ \E d \in rl_Steps : now + d <= MaxRateTime /\ now' = now + d
    /\ rl_ret' = RlCall("tick", TRUE)
    /\ UNCHANGED <<rl_limiter, rl_grants>>
    /\ UNCHANGED <<hd_vars, tst_vars, ddt_vars, tim_vars, btt_vars, rec_vars, cc_vars, go_vars>>


\* ---------------------------------------------------------------------------
\* EnhancedWorkflowRecorder: the entry points the polling loop calls, the
\* trackers they call, and the callbacks the trackers spawn

MaxKept == 2          \* no entry point is called once this many events were appended
MaxFiltered == 1      \* nor once this many events were filtered out
MaxPending == 1       \* nor while this many callbacks wait to run
MaxRecordTime == 500  \* the clock of the recorder stops advancing here
rec_Steps == {500}

\* a Go pointer to a value; the nil pointer is Nil
Ptr(v) == [deref |-> v]

\* GetPerformanceSettings(mode)
GetPerformanceSettings(mode) ==
    IF mode = "LowEnergy"
    THEN [MaxEventsPerSecond |-> Ptr(5), FilterMouseNoise |-> TRUE,
          FilterKeyboardNoise |-> TRUE]
    ELSE IF mode = "Balanced"
    THEN [MaxEventsPerSecond |-> Ptr(20), FilterMouseNoise |-> TRUE,
          FilterKeyboardNoise |-> FALSE]
    ELSE [MaxEventsPerSecond |-> Nil, FilterMouseNoise |-> FALSE,
          FilterKeyboardNoise |-> FALSE]

\* an EnhancedWorkflowRecorderConfig: the mode and the overrides (nil pointers
\* when the mode's default is to be used)
EnhancedConfig(mode, maxEventsPerSecond, filterMouseNoise, filterKeyboardNoise) ==
    [PerformanceMode |-> mode, MaxEventsPerSecond |-> maxEventsPerSecond,
     FilterMouseNoise |-> filterMouseNoise, FilterKeyboardNoise |-> filterKeyboardNoise]

\* NewEnhancedConfig, NewBalancedConfig, NewLowEnergyConfig
NewEnhancedConfig == EnhancedConfig("Normal", Nil, Nil, Nil)
NewBalancedConfig == EnhancedConfig("Balanced", Nil, Nil, Nil)
NewLowEnergyConfig == EnhancedConfig("LowEnergy", Nil, Nil, Nil)

\* the configurations: the three modes, and the normal mode with noise
\* filtering and one event per second chosen by overrides
rec_Configs ==
    {NewEnhancedConfig, NewBalancedConfig, NewLowEnergyConfig,
     EnhancedConfig("Normal", Ptr(1), Ptr(TRUE), Ptr(TRUE))}

\* GetEffectiveSettings()
GetEffectiveSettings(c) ==
    LET settings == GetPerformanceSettings(c.PerformanceMode)
    IN [MaxEventsPerSecond |->
            IF c.MaxEventsPerSecond # Nil THEN c.MaxEventsPerSecond
            ELSE settings.MaxEventsPerSecond,
        FilterMouseNoise |->
            IF c.FilterMouseNoise # Nil THEN c.FilterMouseNoise.deref
            ELSE settings.FilterMouseNoise,
        FilterKeyboardNoise |->
            IF c.FilterKeyboardNoise # Nil THEN c.FilterKeyboardNoise.deref
            ELSE settings.FilterKeyboardNoise]

\* an event as the recorder passes it around: a value of type interface{},
\* which carries its dynamic type (dyn).  MouseEvent and *MouseEvent are
\* different dynamic types
Event(dyn, value) == [dyn |-> dyn, value |-> value]

\* ShouldFilterEvent(event): the type switch has the cases *MouseEvent and
\* *KeyboardEvent, and an event of any other dynamic type falls through
ShouldFilterEvent(c, event) ==
    LET settings == GetEffectiveSettings(c)
    IN IF event.dyn = "*MouseEvent"
       THEN settings.FilterMouseNoise /\ event.value.EventType \in {"Move", "Wheel"}
       ELSE IF event.dyn = "*KeyboardEvent"
       THEN settings.FilterKeyboardNoise
            /\ (event.value.IsKeyDown \/ event.value.Character = Nil)
       ELSE FALSE

\* CreateRateLimiter()
CreateRateLimiter(c) ==
    LET settings == GetEffectiveSettings(c)
    IN IF settings.MaxEventsPerSecond # Nil
       THEN NewRateLimiter(settings.MaxEventsPerSecond.deref, rateWindowSize)
       ELSE Nil

textInputRoles ==
    <<<<"e", "d", "i", "t">>, <<"t", "e", "x", "t">>, <<"t", "e", "x", "t", "b", "o", "x">>, <<"t", "e", "x", "t", "a", "r", "e", "a">>, <<"i", "n", "p", "u", "t">>, <<"s", "e", "a", "r", "c", "h", "b", "o", "x">>,
      <<"p", "a", "s", "s", "w", "o", "r", "d", "b", "o", "x">>, <<"c", "o", "m", "b", "o", "b", "o", "x">>, <<"d", "o", "c", "u", "m", "e", "n", "t">>>>

textInputNames ==
    <<<<"t", "e", "x", "t">>, <<"i", "n", "p", "u", "t">>, <<"s", "e", "a", "r", "c", "h">>, <<"e", "m", "a", "i", "l">>, <<"p", "a", "s", "s", "w", "o", "r", "d">>, <<"u", "s", "e", "r", "n", "a", "m", "e">>,
      <<"m", "e", "s", "s", "a", "g", "e">>, <<"c", "o", "m", "m", "e", "n", "t">>, <<"d", "e", "s", "c", "r", "i", "p", "t", "i", "o", "n">>>>

\* IsTextInputElement(element)
IsTextInputElement(element) ==
    IF element = Nil THEN FALSE
    ELSE LET role == ToLower(element.Role)
             name == ToLower(element.Name)
         IN \/ \E i \in 1..Len(textInputRoles) : Contains(role, textInputRoles[i])
            \/ \E i \in 1..Len(textInputNames) : Contains(name, textInputNames[i])

\* TextSelectionTracker.HandleKeyboardShortcut(combination): for a selection
\* hotkey a timer is started whose callback reads getSelectedText, finds it
\* empty and returns; the tracker's state is not touched
TextSelectionTracker_HandleKeyboardShortcut(combination) == UNCHANGED tst_vars

\* the elements of a finite set in an order
RECURSIVE SeqOf(_)
SeqOf(S) == IF S = {} THEN <<>> ELSE LET x == CHOOSE x \in S : TRUE
                                     IN <<x>> \o SeqOf(S \ {x})

\* go EventCallback(event): the callback that a tracker spawned, if it
\* spawned one
Spawned(dyn, emit) == IF emit = NoEvent THEN <<>> ELSE <<Event(dyn, emit)>>

\* the callbacks spawned for the sessions a call of the text-input manager
\* completed
SpawnedByCompletions(done) ==
    SeqOf({Event("TextInputCompletedEvent", d.event) : d \in {x \in done : x.event # NoEvent}})

rec_Init ==
    /\ rec_Config = Nil
    /\ rec_IsRecording = FALSE
    /\ rec_Events = <<>>
    /\ rec_EventCount = 0
    /\ rec_FilteredEventCount = 0
    /\ rec_pending = <<>>
    /\ rec_owed = {}

\* NewEnhancedWorkflowRecorder(config): the trackers are in their initial
\* states and the rate limiter is created from the configuration
NewEnhancedWorkflowRecorder(config) ==
    /\ rec_Config = Nil
    /\ rec_Config' = config
    /\ rl_limiter' = CreateRateLimiter(config)
    /\ rl_ret' = RlCall("new", TRUE)
    /\ UNCHANGED rl_grants
    /\ UNCHANGED <<rec_IsRecording, rec_Events, rec_EventCount, rec_FilteredEventCount,
                   rec_pending, rec_owed>>
    /\ UNCHANGED <<now, hd_vars, tst_vars, ddt_vars, tim_vars, btt_vars, cc_vars, go_vars>>

\* StartRecording()
StartRecording ==
    /\ rec_Config # Nil
    /\ IF rec_IsRecording
       THEN UNCHANGED <<rec_IsRecording, rec_Events, rec_owed>>
       ELSE /\ rec_IsRecording' = TRUE
            /\ rec_Events' = <<>>
            /\ rec_owed' = {}
    /\ UNCHANGED <<rec_Config, rec_EventCount, rec_FilteredEventCount, rec_pending>>
    /\ UNCHANGED <<now, hd_vars, tst_vars, ddt_vars, tim_vars, btt_vars, rl_vars, cc_vars, go_vars>>

\* StopRecording(): IsRecording is cleared, then the text-input manager
\* completes its sessions
StopRecording ==
    /\ rec_Config # Nil
    /\ IF ~rec_IsRecording
       THEN UNCHANGED <<rec_IsRecording, rec_pending, rec_owed, tim_vars>>
       ELSE /\ rec_IsRecording' = FALSE
            /\ TextInputManager_CompleteAllActiveInputs
            /\ rec_pending' = rec_pending \o SpawnedByCompletions(tim_done')
            /\ rec_owed' = {getFieldName(tim_ActiveInputs[k].Element) :
                               k \in {x \in DOMAIN tim_ActiveInputs : tim_applied[x] > 0}}
    /\ UNCHANGED <<rec_Config, rec_Events, rec_EventCount, rec_FilteredEventCount>>
    /\ UNCHANGED <<now, hd_vars, tst_vars, ddt_vars, btt_vars, rl_vars, cc_vars, go_vars>>

\* if ewr.shouldRecordEvent(event) { ewr.addEvent(event) }: the rate limiter
\* is asked first, then the configuration's filter
recordEvent(event) ==
    /\ IF rl_limiter # Nil THEN RateLimiter_Allow ELSE UNCHANGED rl_vars
    /\ LET allowed == rl_limiter = Nil \/ rl_ret'.ret
           record == allowed /\ ~ShouldFilterEvent(rec_Config, event)
       IN /\ rec_FilteredEventCount' =
                IF record THEN rec_FilteredEventCount ELSE rec_FilteredEventCount + 1
          /\ rec_Events' = IF record THEN Append(rec_Events, event) ELSE rec_Events
          /\ rec_EventCount' = IF record THEN rec_EventCount + 1 ELSE rec_EventCount

\* HandleMouseEvent(eventType, button, position, scrollDelta); currentElement
\* is what getCurrentUIElement returns and clipboard what the drag tracker
\* reads from the clipboard
HandleMouseEvent(eventType, button, position, currentElement, clipboard) ==
    /\ rec_Config # Nil
    /\ IF ~rec_IsRecording
       THEN UNCHANGED <<tst_vars, ddt_vars, btt_vars, rl_vars, rec_pending, rec_Events,
                        rec_EventCount, rec_FilteredEventCount>>
       ELSE /\ IF eventType = "Down"
               THEN /\ TextSelectionTracker_HandleMouseDown(position, button)
                    /\ DragDropTracker_HandleMouseDown(position, button, currentElement)
                    /\ UNCHANGED <<btt_vars, rec_pending>>
               ELSE IF eventType = "Move"
               THEN /\ TextSelectionTracker_HandleMouseMove(position)
                    /\ DragDropTracker_HandleMouseMove(position)
                    /\ UNCHANGED <<btt_vars, rec_pending>>
               ELSE IF eventType = "Up"
               THEN /\ TextSelectionTracker_HandleMouseUp(position, button)
                    /\ DragDropTracker_HandleMouseUp(position, button, currentElement,
                                                     clipboard)
                    /\ UNCHANGED btt_vars
                    /\ rec_pending' = rec_pending
                                         \o Spawned("TextSelectionEvent", tst_emit')
                                         \o Spawned("DragDropEvent", ddt_emit')
               ELSE IF eventType = "Click"
               THEN /\ BrowserTabTracker_HandleClick(position, currentElement)
                    /\ UNCHANGED <<tst_vars, ddt_vars, rec_pending>>
               ELSE UNCHANGED <<tst_vars, ddt_vars, btt_vars, rec_pending>>
            /\ recordEvent(Event("MouseEvent",
                                 [EventType |-> eventType, Button |-> button,
                                  Position |-> position]))
    /\ UNCHANGED <<rec_Config, rec_IsRecording, rec_owed>>
    /\ UNCHANGED <<now, hd_vars, tim_vars, cc_vars, go_vars>>

\* HandleKeyboardEvent(keyCode, isKeyDown, character)
HandleKeyboardEvent(keyCode, isKeyDown, character) ==
    /\ rec_Config # Nil
    /\ IF ~rec_IsRecording
       THEN UNCHANGED <<hd_vars, ddt_vars, tim_vars, rl_vars, rec_pending, rec_Events,
                        rec_EventCount, rec_FilteredEventCount>>
       ELSE /\ HotkeyDetector_HandleKeyPress(keyCode, isKeyDown)
            /\ DragDropTracker_HandleKeyPress(keyCode, isKeyDown)
            /\ IF character # Nil /\ character.deref # <<>>
               THEN TextInputManager_HandleKeystroke(keyCode, character.deref)
               ELSE UNCHANGED tim_vars
            /\ rec_pending' = rec_pending \o Spawned("HotkeyEvent", hd_emit')
            /\ recordEvent(Event("KeyboardEvent",
                                 [KeyCode |-> keyCode, IsKeyDown |-> isKeyDown,
                                  Character |-> character]))
    /\ UNCHANGED <<rec_Config, rec_IsRecording, rec_owed>>
    /\ UNCHANGED <<now, tst_vars, btt_vars, cc_vars, go_vars>>

\* HandleWindowChange(); currentElement is what getCurrentUIElement returns
HandleWindowChange(currentElement) ==
    /\ rec_Config # Nil
    /\ IF ~rec_IsRecording \/ currentElement = Nil
       THEN UNCHANGED <<btt_vars, tim_vars, rec_pending>>
       ELSE /\ BrowserTabTracker_HandleWindowChange(currentElement)
            /\ IF IsTextInputElement(currentElement)
               THEN /\ TextInputManager_StartTextInput(currentElement)
                    /\ rec_pending' = rec_pending
                                         \o Spawned("BrowserTabNavigationEvent", btt_emit')
                                         \o SpawnedByCompletions(tim_done')
               ELSE /\ UNCHANGED tim_vars
                    /\ rec_pending' = rec_pending
                                         \o Spawned("BrowserTabNavigationEvent", btt_emit')
    /\ UNCHANGED <<rec_Config, rec_IsRecording, rec_Events, rec_EventCount,
                   rec_FilteredEventCount, rec_owed>>
    /\ UNCHANGED <<now, hd_vars, tst_vars, ddt_vars, rl_vars, cc_vars, go_vars>>

\* the i-th waiting callback runs: handleTextInputEvent,
\* handleBrowserNavigationEvent, handleHotkeyEvent, handleTextSelectionEvent or
\* handleDragDropEvent, by the type of its event; currentElement is what
\* getCurrentUIElement returns to handleHotkeyEvent
handleEvent(i, currentElement) ==
    LET event == rec_pending[i]
    IN /\ rec_pending' = SubSeq(rec_pending, 1, i - 1)
                            \o SubSeq(rec_pending, i + 1, Len(rec_pending))
       /\ IF ~rec_IsRecording
          THEN UNCHANGED <<btt_vars, tst_vars, rl_vars, rec_Events, rec_EventCount,
                           rec_FilteredEventCount>>
          ELSE /\ IF event.dyn = "HotkeyEvent"
                  THEN /\ BrowserTabTracker_HandleHotkey(event.value.Combination,
                                                         currentElement)
                       /\ TextSelectionTracker_HandleKeyboardShortcut(
                              event.value.Combination)
                  ELSE UNCHANGED <<btt_vars, tst_vars>>
               /\ recordEvent(event)
       /\ UNCHANGED <<rec_Config, rec_IsRecording, rec_owed>>
       /\ UNCHANGED <<now, hd_vars, ddt_vars, tim_vars, cc_vars, cc_vars, go_vars>>

\* the window under the pointer: one whose title makes it a text input, and
\* the editor
rec_Windows == {W_search, W3_editor}

\* the keyboard: Ctrl and S, which carry no character, and A with "a"
rec_Keystrokes ==
    {[keyCode |-> VK_CONTROL, character |-> Nil],
     [keyCode |-> 83, character |-> Nil],
     [keyCode |-> 65, character |-> Ptr(<<"a">>)]}

\* the polling loop calls an entry point while the bounds allow
rec_Bounded ==
    /\ rec_EventCount < MaxKept
    /\ rec_FilteredEventCount < MaxFiltered
    /\ Len(rec_pending) < MaxPending

rec_New == \E c \in rec_Configs : NewEnhancedWorkflowRecorder(c)

rec_StartRecording == StartRecording

rec_StopRecording == StopRecording

\* a press at the origin, a move and a release 50 px away, a click, a wheel turn
rec_MouseInputs ==
    {[eventType |-> "Down", position |-> Pos(0, 0)],
     [eventType |-> "Move", position |-> Pos(30, 40)],
     [eventType |-> "Up", position |-> Pos(30, 40)],
     [eventType |-> "Click", position |-> Pos(0, 0)],
     [eventType |-> "Wheel", position |-> Pos(0, 0)]}

rec_Mouse ==
    \E m \in rec_MouseInputs :
        /\ rec_Bounded
        /\ HandleMouseEvent(m.eventType, "Left", m.position, W3_editor, <<>>)

rec_Keyboard ==
    \E k \in rec_Keystrokes, d \in BOOLEAN :
        /\ rec_Bounded
        /\ HandleKeyboardEvent(k.keyCode, d, k.character)

rec_WindowChange ==
    \E e \in rec_Windows :
        /\ rec_Bounded
        /\ HandleWindowChange(e)

rec_Callback ==
    \E i \in 1..Len(rec_pending), e \in rec_Windows : handleEvent(i, e)

rec_Tick ==
    /\ \E d \in rec_Steps : now + d <= MaxRecordTime /\ now' = now + d
    /\ UNCHANGED <<hd_vars, tst_vars, ddt_vars, tim_vars, btt_vars, rl_vars, rec_vars, cc_vars, go_vars>>

\* ---------------------------------------------------------------------------
\* The trackers' locks: Handle* calls made from several goroutines, the
\* callbacks they spawn with `go EventCallback(event)`, and callbacks that
\* call back into the tracker that emitted their event

MaxCalls == 3         \* Handle* calls started by the callers, all trackers together

cc_Callers == {1, 2}
cc_Trackers ==
    {"HotkeyDetector", "DragDropTracker", "TextInputManager", "TextSelectionTracker"}

\* a goroutine: a caller of the Handle* entry points, or the goroutine of the
\* callback spawned by the call with that id
Caller(g) == <<"caller", g>>
Callback(id) == <<"callback", id>>

\* a sync.RWMutex: the goroutine that holds it for writing, if any, and the
\* goroutines that hold it for reading
FreeMutex == [w |-> {}, r |-> {}]

cc_Init ==
    /\ cc_mutex = [t \in cc_Trackers |-> FreeMutex]
    /\ cc_caller = [g \in cc_Callers |-> [at |-> "idle"]]
    /\ cc_callback = <<>>
    /\ cc_spawned = [t \in cc_Trackers |-> <<>>]
    /\ cc_committed = [t \in cc_Trackers |-> <<>>]
    /\ cc_calls = 0

cc_Frame ==
    UNCHANGED <<now, hd_vars, tst_vars, ddt_vars, tim_vars, btt_vars, rl_vars, rec_vars,
                go_vars>>

\* whether a call of tracker t can find an event to emit:
\* TextSelectionTracker.HandleMouseUp needs text from getSelectedText, and
\* completeTextInputInternal a final text from getCurrentText that is not blank
CanEmit(t) ==
    CASE t = "TextSelectionTracker" -> getSelectedText # <<>>
      [] t = "TextInputManager" -> \E e \in tim_Elements \ {Nil} : getCurrentText(e) # <<>>
      [] OTHER -> TRUE

\* goroutine g calls a Handle* entry point of tracker t (HandleKeyPress,
\* HandleMouseUp, CompleteTextInput); emits tells whether the call finds an
\* event to emit
cc_Call(g, t, emits) ==
    /\ cc_caller[g].at = "idle"
    /\ cc_calls < MaxCalls
    /\ emits => CanEmit(t)
    /\ cc_calls' = cc_calls + 1
    /\ cc_caller' = [cc_caller EXCEPT ![g] =
                        [at |-> "waiting", tracker |-> t, id |-> cc_calls + 1,
                         emits |-> emits]]
    /\ UNCHANGED <<cc_mutex, cc_callback, cc_spawned, cc_committed>>
    /\ cc_Frame

\* Mutex.Lock() that does not wait for the holder
cc_Lock_noWait(g) ==
    /\ cc_caller[g].at = "waiting"
    /\ cc_mutex' = [cc_mutex EXCEPT ![cc_caller[g].tracker].w = {Caller(g)}]
    /\ cc_caller' = [cc_caller EXCEPT ![g].at = "locked"]
    /\ UNCHANGED <<cc_callback, cc_spawned, cc_committed, cc_calls>>
    /\ cc_Frame

\* Mutex.Lock() at the start of the entry point returns
cc_Lock(g) ==
    /\ cc_caller[g].at = "waiting"
    /\ cc_mutex[cc_caller[g].tracker] = FreeMutex
    /\ cc_mutex' = [cc_mutex EXCEPT ![cc_caller[g].tracker].w = {Caller(g)}]
    /\ cc_caller' = [cc_caller EXCEPT ![g].at = "locked"]
    /\ UNCHANGED <<cc_callback, cc_spawned, cc_committed, cc_calls>>
    /\ cc_Frame

\* go EventCallback(event), inside the critical section: the callback gets
\* its own goroutine
cc_Spawn(g) ==
    /\ cc_caller[g].at = "locked"
    /\ cc_caller[g].emits
    /\ cc_spawned' = [cc_spawned EXCEPT ![cc_caller[g].tracker] =
                         Append(@, cc_caller[g].id)]
    /\ cc_callback' = Put(cc_callback, cc_caller[g].id,
                          [tracker |-> cc_caller[g].tracker, at |-> "started"])
    /\ cc_caller' = [cc_caller EXCEPT ![g].at = "spawned"]
    /\ UNCHANGED <<cc_mutex, cc_committed, cc_calls>>
    /\ cc_Frame

\* the state is cleared and the deferred Mutex.Unlock() runs: the call's
\* transition is complete
cc_Unlock(g) ==
    /\ \/ cc_caller[g].at = "spawned"
       \/ cc_caller[g].at = "locked" /\ ~cc_caller[g].emits
    /\ cc_mutex' = [cc_mutex EXCEPT ![cc_caller[g].tracker].w = @ \ {Caller(g)}]
    /\ cc_committed' = [cc_committed EXCEPT ![cc_caller[g].tracker] =
                           Append(@, cc_caller[g].id)]
    /\ cc_caller' = [cc_caller EXCEPT ![g] = [at |-> "idle"]]
    /\ UNCHANGED <<cc_callback, cc_spawned, cc_calls>>
    /\ cc_Frame

\* TextSelectionTracker.HandleKeyboardShortcut with a selection hotkey: it
\* takes no lock; its timer reads getSelectedText 100 ms later and spawns the
\* callback only when there is text
cc_HandleKeyboardShortcut(g) ==
    /\ cc_caller[g].at = "idle"
    /\ cc_calls < MaxCalls
    /\ cc_calls' = cc_calls + 1
    /\ IF getSelectedText = <<>>
       THEN UNCHANGED <<cc_spawned, cc_callback>>
       ELSE /\ cc_spawned' = [cc_spawned EXCEPT !["TextSelectionTracker"] =
                                 Append(@, cc_calls + 1)]
            /\ cc_callback' = Put(cc_callback, cc_calls + 1,
                                  [tracker |-> "TextSelectionTracker", at |-> "started"])
    /\ UNCHANGED <<cc_mutex, cc_caller, cc_committed>>
    /\ cc_Frame

\* the callback returns without calling the tracker
cc_CallbackReturns(id) ==
    /\ id \in DOMAIN cc_callback
    /\ cc_callback[id].at = "started"
    /\ cc_callback' = [cc_callback EXCEPT ![id].at = "returned"]
    /\ UNCHANGED <<cc_mutex, cc_caller, cc_spawned, cc_committed, cc_calls>>
    /\ cc_Frame

\* a callback that blocks while it is inside the tracker, holding its lock
cc_CallbackBlocks_inside(id) ==
    /\ id \in DOMAIN cc_callback
    /\ cc_callback[id].at = "inside"
    /\ cc_callback' = [cc_callback EXCEPT ![id].at = "blocked"]
    /\ UNCHANGED <<cc_mutex, cc_caller, cc_spawned, cc_committed, cc_calls>>
    /\ cc_Frame

\* the callback blocks forever, in its own code
cc_CallbackBlocks(id) ==
    /\ id \in DOMAIN cc_callback
    /\ cc_callback[id].at = "started"
    /\ cc_callback' = [cc_callback EXCEPT ![id].at = "blocked"]
    /\ UNCHANGED <<cc_mutex, cc_caller, cc_spawned, cc_committed, cc_calls>>
    /\ cc_Frame

\* the callback calls back into the tracker that emitted its event:
\* HandleKeyPress from the hotkey callback and StartTextInput from the
\* text-input callback (Mutex.Lock), GetCurrentDragInfo from the drag callback
\* (Mutex.RLock)
cc_CallbackReenters(id) ==
    /\ id \in DOMAIN cc_callback
    /\ cc_callback[id].at = "started"
    /\ cc_callback' = [cc_callback EXCEPT ![id].at = "waiting"]
    /\ UNCHANGED <<cc_mutex, cc_caller, cc_spawned, cc_committed, cc_calls>>
    /\ cc_Frame

\* Lock() or RLock() of the call the callback makes returns
cc_CallbackLock(id) ==
    /\ id \in DOMAIN cc_callback
    /\ cc_callback[id].at = "waiting"
    /\ LET t == cc_callback[id].tracker
       IN IF t = "DragDropTracker"
          THEN /\ cc_mutex[t].w = {}
               /\ cc_mutex' = [cc_mutex EXCEPT ![t].r = @ \cup {Callback(id)}]
          ELSE /\ cc_mutex[t] = FreeMutex
               /\ cc_mutex' = [cc_mutex EXCEPT ![t].w = {Callback(id)}]
    /\ cc_callback' = [cc_callback EXCEPT ![id].at = "inside"]
    /\ UNCHANGED <<cc_caller, cc_spawned, cc_committed, cc_calls>>
    /\ cc_Frame

\* the deferred Unlock() or RUnlock() of that call runs, and the callback returns
cc_CallbackUnlock(id) ==
    /\ id \in DOMAIN cc_callback
    /\ cc_callback[id].at = "inside"
    /\ cc_mutex' = [cc_mutex EXCEPT ![cc_callback[id].tracker] =
                       [w |-> @.w \ {Callback(id)}, r |-> @.r \ {Callback(id)}]]
    /\ cc_callback' = [cc_callback EXCEPT ![id].at = "returned"]
    /\ UNCHANGED <<cc_caller, cc_spawned, cc_committed, cc_calls>>
    /\ cc_Frame

cc_Ids == 1..MaxCalls

cc_Calls == \E g \in cc_Callers, t \in cc_Trackers, e \in BOOLEAN : cc_Call(g, t, e)

cc_KeyboardShortcuts == \E g \in cc_Callers : cc_HandleKeyboardShortcut(g)

cc_Locks == \E g \in cc_Callers : cc_Lock(g)

cc_Spawns == \E g \in cc_Callers : cc_Spawn(g)

cc_Unlocks == \E g \in cc_Callers : cc_Unlock(g)

cc_Returns == \E id \in cc_Ids : cc_CallbackReturns(id)

cc_Blocks == \E id \in cc_Ids : cc_CallbackBlocks(id)

cc_Reenters == \E id \in cc_Ids : cc_CallbackReenters(id)

cc_CallbackLocks == \E id \in cc_Ids : cc_CallbackLock(id)

cc_CallbackUnlocks == \E id \in cc_Ids : cc_CallbackUnlock(id)

\* ---------------------------------------------------------------------------
\* Calls that run on several goroutines without one lock around all their steps

rr_Goroutines == {1, 2}

go_Init ==
    /\ rr_pc = [g \in rr_Goroutines |-> [at |-> "idle"]]
    /\ sr_pc = [at |-> "idle"]

\* RateLimiter.Allow as the event callbacks call it through shouldRecordEvent:
\* each callback runs on its own goroutine and Allow takes no lock, so the
\* reads and writes of two calls interleave

rr_MaxEvents == {1, 2}

rr_Frame == UNCHANGED <<hd_vars, tst_vars, ddt_vars, tim_vars, btt_vars, rec_vars, cc_vars, sr_pc>>

\* the recorder's constructor creates the limiter, before any callback runs
rr_New ==
    /\ rl_limiter = Nil
    /\ \E maxEvents \in rr_MaxEvents :
          rl_limiter' = NewRateLimiter(maxEvents, rateWindowSize)
    /\ rl_ret' = RlCall("new", TRUE)
    /\ UNCHANGED <<now, rl_grants, rr_pc>>
    /\ rr_Frame

\* now := time.Now(), and the window is reset if it has elapsed
rr_Window(g) ==
    /\ rl_limiter # Nil
    /\ rr_pc[g].at = "idle"
    /\ rl_limiter' = IF windowElapsed(rl_limiter, now)
                     THEN [rl_limiter EXCEPT !.EventCount = 0, !.WindowStart = now]
                     ELSE rl_limiter
    /\ rr_pc' = [rr_pc EXCEPT ![g] = [at |-> "check", now |-> now]]
    /\ UNCHANGED <<now, rl_ret, rl_grants>>
    /\ rr_Frame

\* if rl.EventCount >= rl.MaxEvents { return false }
rr_Check(g) ==
    /\ rr_pc[g].at = "check"
    /\ IF rl_limiter.EventCount >= rl_limiter.MaxEvents
       THEN /\ rr_pc' = [rr_pc EXCEPT ![g] = [at |-> "idle"]]
            /\ rl_ret' = RlCall("allow", FALSE)
       ELSE /\ rr_pc' = [rr_pc EXCEPT ![g].at = "load"]
            /\ UNCHANGED rl_ret
    /\ UNCHANGED <<now, rl_limiter, rl_grants>>
    /\ rr_Frame

\* rl.EventCount++ reads the count
rr_Load(g) ==
    /\ rr_pc[g].at = "load"
    /\ rr_pc' = [rr_pc EXCEPT ![g] =
                    [at |-> "store", now |-> rr_pc[g].now, count |-> rl_limiter.EventCount]]
    /\ UNCHANGED <<now, rl_limiter, rl_ret, rl_grants>>
    /\ rr_Frame

\* rl.EventCount++ writes the count; return true
rr_Store(g) ==
    /\ rr_pc[g].at = "store"
    /\ rl_limiter' = [rl_limiter EXCEPT !.EventCount = rr_pc[g].count + 1]
    /\ rl_ret' = RlCall("allow", TRUE)
    /\ rl_grants' = Append(rl_grants,
                           [at |-> rr_pc[g].now, window |-> rl_limiter.WindowStart])
    /\ rr_pc' = [rr_pc EXCEPT ![g] = [at |-> "idle"]]
    /\ UNCHANGED now
    /\ rr_Frame

rr_Tick ==
    /\ \E d \in rl_Steps : now + d <= MaxRateTime /\ now' = now + d
    /\ UNCHANGED <<rl_limiter, rl_ret, rl_grants, rr_pc>>
    /\ rr_Frame

rr_Windows == \E g \in rr_Goroutines : rr_Window(g)

rr_Checks == \E g \in rr_Goroutines : rr_Check(g)

rr_Loads == \E g \in rr_Goroutines : rr_Load(g)

rr_Stores == \E g \in rr_Goroutines : rr_Store(g)

\* ---------------------------------------------------------------------------
\* The recorder during a drag: presses, moves and releases of the primary
\* button over either window, with moves and releases 10, 50 and 100 px from
\* the press

MaxDragCalls == 4     \* mouse events and callbacks the recorder keeps or drops during a drag

rec_DragInputs ==
    {[eventType |-> "Down", position |-> Pos(0, 0)],
     [eventType |-> "Move", position |-> Pos(30, 40)],
     [eventType |-> "Move", position |-> Pos(60, 80)],
     [eventType |-> "Up", position |-> Pos(6, 8)],
     [eventType |-> "Up", position |-> Pos(30, 40)],
     [eventType |-> "Up", position |-> Pos(60, 80)]}

rec_DragMouse ==
    \E m \in rec_DragInputs, e \in rec_Windows :
        /\ rec_EventCount + rec_FilteredEventCount < MaxDragCalls
        /\ Len(rec_pending) < MaxPending
        /\ HandleMouseEvent(m.eventType, "Left", m.position, e, <<>>)

\* ---------------------------------------------------------------------------
\* TextSelectionTracker.HandleMouseMove on one goroutine while HandleMouseDown
\* and HandleMouseUp run on another: the call has two critical sections, and
\* the other calls can run between them

\* RLock; isSelecting := tst.IsSelecting; RUnlock; if !isSelecting { return }
sr_MoveCheck(position) ==
    /\ sr_pc.at = "idle"
    /\ sr_pc' = IF tst_IsSelecting
                THEN [at |-> "checked", position |-> position]
                ELSE sr_pc
    /\ tst_emit' = NoEvent
    /\ tst_up' = NoCall
    /\ UNCHANGED <<tst_IsSelecting, tst_SelectionStartPos, tst_SelectionStartTime,
                   tst_LastMousePos, tst_LastClickTime, tst_LastClickPos, tst_ClickCount>>
    /\ UNCHANGED <<now, hd_vars, ddt_vars, tim_vars, btt_vars, rl_vars, rec_vars, cc_vars,
                   rr_pc>>

\* Lock; tst.LastMousePos = position; Unlock
sr_MoveWrite ==
    /\ sr_pc.at = "checked"
    /\ tst_LastMousePos' = sr_pc.position
    /\ sr_pc' = [at |-> "idle"]
    /\ tst_emit' = NoEvent
    /\ tst_up' = NoCall
    /\ UNCHANGED <<tst_IsSelecting, tst_SelectionStartPos, tst_SelectionStartTime,
                   tst_LastClickTime, tst_LastClickPos, tst_ClickCount>>
    /\ UNCHANGED <<now, hd_vars, ddt_vars, tim_vars, btt_vars, rl_vars, rec_vars, cc_vars,
                   rr_pc>>

sr_MoveChecks == \E p \in tst_Positions : sr_MoveCheck(p)

\* the time by which every timer armed up to MaxInputTime is due
DrainTime == MaxInputTime + CompletionTimeout

\* the calls of the recorder stop after MaxInputTime
tim_StartBefore == now <= MaxInputTime /\ tim_Start

tim_KeyBefore == now <= MaxInputTime /\ tim_Key

tim_AllBefore == now <= MaxInputTime /\ tim_CompleteAllActiveInputs

\* time passes after the last call, up to the deadline of the last timer
tim_Drain ==
    /\ now = MaxInputTime
    /\ now' = DrainTime
    /\ tim_done' = {}
    /\ tim_call' = TimCall("other", <<>>)
    /\ UNCHANGED <<tim_ActiveInputs, tim_stale, tim_applied, tim_sinceAll>>
    /\ UNCHANGED <<hd_vars, tst_vars, ddt_vars, btt_vars, rl_vars, rec_vars, cc_vars, go_vars>>

Init ==
    /\ now = 0
    /\ hd_Init
    /\ tst_Init
    /\ ddt_Init
    /\ tim_Init
    /\ btt_Init
    /\ rl_Init
    /\ rec_Init
    /\ cc_Init
    /\ go_Init

NextHotkey == hd_KeyDown \/ hd_KeyUp \/ hd_Tick

SpecHotkey == Init /\ [][NextHotkey]_vars

NextHotkeyCatalog == hd_PressPatternKey \/ hd_ReleaseRunKey \/ hd_Tick

SpecHotkeyCatalog == Init /\ [][NextHotkeyCatalog]_vars

NextSelection == tst_MouseDown \/ tst_MouseMove \/ tst_MouseUp \/ tst_Tick

SpecSelection == Init /\ [][NextSelection]_vars

NextDrag == ddt_MouseDown \/ ddt_MouseMove \/ ddt_MouseUp \/ ddt_KeyPress \/ ddt_Tick

SpecDrag == Init /\ [][NextDrag]_vars

NextTextInput ==
    \/ tim_Start \/ tim_Key \/ tim_Fire \/ tim_Run \/ tim_Stale
    \/ tim_CompleteAllActiveInputs \/ tim_Tick

SpecTextInput == Init /\ [][NextTextInput]_vars

NextBrowser == btt_WindowChange \/ btt_Hotkey \/ btt_Click \/ btt_Tick

SpecBrowser == Init /\ [][NextBrowser]_vars

NextBrowserMethod == btt_MethodWindowChange \/ btt_MethodHotkey \/ btt_MethodClick

SpecBrowserMethod == Init /\ [][NextBrowserMethod]_vars

NextBrowserBuffers == btt_BufferWindowChange \/ btt_BufferHotkey \/ btt_BufferClick

SpecBrowserBuffers == Init /\ [][NextBrowserBuffers]_vars

NextRateLimiter == rl_New \/ rl_Allow \/ rl_Tick

SpecRateLimiter == Init /\ [][NextRateLimiter]_vars

NextRecorder ==
    \/ rec_New
    \/ rec_StartRecording
    \/ rec_StopRecording
    \/ rec_Mouse
    \/ rec_Keyboard
    \/ rec_WindowChange
    \/ rec_Callback
    \/ rec_Tick

SpecRecorder == Init /\ [][NextRecorder]_vars

NextConcurrency ==
    \/ cc_Calls
    \/ cc_KeyboardShortcuts
    \/ cc_Locks
    \/ cc_Spawns
    \/ cc_Unlocks
    \/ cc_Returns
    \/ cc_Blocks
    \/ cc_Reenters
    \/ cc_CallbackLocks
    \/ cc_CallbackUnlocks

SpecConcurrency == Init /\ [][NextConcurrency]_vars

\* the scheduler runs every goroutine that can take a step, and a goroutine
\* that waits for a mutex gets it once it has been free often enough
\* (sync.Mutex hands the lock to a starving waiter)
FairConcurrency ==
    /\ \A g \in cc_Callers :
          /\ SF_vars(cc_Lock(g))
          /\ WF_vars(cc_Spawn(g))
          /\ WF_vars(cc_Unlock(g))
    /\ \A id \in cc_Ids :
          /\ SF_vars(cc_CallbackLock(id))
          /\ WF_vars(cc_CallbackUnlock(id))

SpecConcurrencyFair == SpecConcurrency /\ FairConcurrency

NextRateRace == rr_New \/ rr_Windows \/ rr_Checks \/ rr_Loads \/ rr_Stores \/ rr_Tick

SpecRateRace == Init /\ [][NextRateRace]_vars

NextRecorderDrag ==
    \/ rec_New
    \/ rec_StartRecording
    \/ rec_DragMouse
    \/ rec_Callback
    \/ rec_Tick

SpecRecorderDrag == Init /\ [][NextRecorderDrag]_vars

NextSelectionRace ==
    \/ tst_MouseDown
    \/ tst_MouseUp
    \/ sr_MoveChecks
    \/ sr_MoveWrite
    \/ tst_Tick

SpecSelectionRace == Init /\ [][NextSelectionRace]_vars

\* ================================================================ claims
PatternIndexes == 1..Len(HotkeyPatterns)

\* the events of the run, in emission order
RECURSIVE EventsOf(_)
EventsOf(emits) ==
    IF emits = <<>> THEN <<>>
    ELSE IF emits[1] = NoEvent THEN EventsOf(Tail(emits))
    ELSE <<emits[1]>> \o EventsOf(Tail(emits))

\* the run is n key-downs of distinct keys from the empty state, no key-up yet
DownsOnly == hd_run # <<>> /\ IsInjective(hd_run) /\ hd_ups = {}

\* some proper prefix of at least two keys of the run is a catalog key set
PrefixMatches ==
    \E n \in 2..(Len(hd_run) - 1) : Range(SubSeq(hd_run, 1, n)) \in PatternKeySets

\* the number of key-downs of the run made after its last event
DownsAfterLastEvent ==
    LET at == {i \in 1..Len(hd_runEmits) : hd_runEmits[i] # NoEvent}
    IN IF at = {} THEN Len(hd_run)
       ELSE Len(hd_run) - (CHOOSE i \in at : \A j \in at : j <= i)

\* C1 (as claimed): from the empty state, key-downs of exactly the keys of a
\* catalog pattern of at least two keys, in any order and with no key-up,
\* cause exactly one HotkeyEvent, the one of that pattern.
C1_AnyOrderOneEvent ==
    \A i \in PatternIndexes :
        (/\ Len(HotkeyPatterns[i].Keys) >= 2
         /\ DownsOnly
         /\ Range(hd_run) = Range(HotkeyPatterns[i].Keys))
        => EventsOf(hd_runEmits) = <<HotkeyEventOf(HotkeyPatterns[i])>>

\* C1 (amended): the same, provided no proper prefix of at least two keys of
\* the press order is itself a catalog key set; Ctrl+Shift+Tab pressed with
\* Ctrl and Tab first yields the single event Ctrl+Tab instead.
C1_OneEventUnlessPrefix ==
    /\ \A i \in PatternIndexes :
        (/\ Len(HotkeyPatterns[i].Keys) >= 2
         /\ DownsOnly
         /\ Range(hd_run) = Range(HotkeyPatterns[i].Keys)
         /\ ~PrefixMatches)
        => /\ EventsOf(hd_runEmits) = <<HotkeyEventOf(HotkeyPatterns[i])>>
           /\ Last(hd_runEmits) # NoEvent
    /\ (DownsOnly /\ hd_run \in {<<VK_CONTROL, 9, VK_SHIFT>>, <<9, VK_CONTROL, VK_SHIFT>>})
        => EventsOf(hd_runEmits) =
              <<[Combination |-> "Ctrl+Tab", Action |-> "Next Tab", IsGlobal |-> FALSE]>>
    /\ (DownsOnly /\ Range(hd_run) = {VK_CONTROL, 83})
        => EventsOf(hd_runEmits) =
              <<[Combination |-> "Ctrl+S", Action |-> "Save", IsGlobal |-> FALSE]>>

\* C1 witness: S then Ctrl pressed from the empty state, Ctrl+S emitted
C1_Witness ==
    /\ hd_run = <<83, VK_CONTROL>>
    /\ hd_ups = {}
    /\ hd_emit = [Combination |-> "Ctrl+S", Action |-> "Save", IsGlobal |-> FALSE]

\* C2 (as claimed): after a HotkeyEvent has fired, key-down samples of the
\* keys of that combination, with no key-up in between, emit nothing.
C2_NoRefireWhileHeld ==
    [][~(hd_fired # {} /\ hd_emit' # NoEvent /\ hd_emitHeld' \subseteq hd_fired)]_vars

\* C3 (as claimed): after N key-downs of distinct keys from the empty state,
\* with no key-up, the held set has N entries; after a key-up for each of
\* those keys it is empty.
C3_HeldCountIsN ==
    /\ DownsOnly => Cardinality(hd_PressedKeys) = Len(hd_run)
    /\ (hd_run # <<>> /\ IsInjective(hd_run) /\ Range(hd_run) \subseteq hd_ups)
        => hd_PressedKeys = {}

\* C3 (amended): the held set has N entries unless one of the key-downs
\* completed a catalog pattern; a match clears the set, which then holds the
\* keys pressed after the last match.  After a key-up for each key of the
\* run the set is empty.
C3_HeldCountSinceMatch ==
    /\ DownsOnly => /\ Cardinality(hd_PressedKeys) = DownsAfterLastEvent
                    /\ EventsOf(hd_runEmits) = <<>> =>
                          Cardinality(hd_PressedKeys) = Len(hd_run)
    /\ (hd_run # <<>> /\ IsInjective(hd_run) /\ Range(hd_run) \subseteq hd_ups)
        => hd_PressedKeys = {}

\* C3 witness: three distinct keys pressed without a match, then all released
C3_Witness ==
    /\ Len(hd_run) = 3
    /\ IsInjective(hd_run)
    /\ EventsOf(hd_runEmits) = <<>>
    /\ hd_ups = Range(hd_run)
    /\ hd_PressedKeys = {}

\* C4: a key code is in KeyPressOrder iff it is a key of PressedKeys, and
\* KeyPressOrder holds no key code twice.
C4_OrderInSync ==
    /\ Range(hd_KeyPressOrder) = hd_PressedKeys
    /\ IsInjective(hd_KeyPressOrder)

\* C4 witness: two keys still held after a key-up took one out of the order list
C4_Witness ==
    /\ Len(hd_KeyPressOrder) = 2
    /\ Len(hd_run) = 3
    /\ hd_ups # {}
    /\ hd_ups \subseteq Range(hd_run)

\* the display strings of the single-key catalog entries
SingleKeyCombinations ==
    {HotkeyPatterns[i].Combination : i \in {j \in PatternIndexes :
                                               Len(HotkeyPatterns[j].Keys) = 1}}

\* C5: no HotkeyEvent is emitted while fewer than two keys are held, and the
\* single-key entries F1, F4, F5, F11, PrintScreen are never emitted.
C5_NoSingleKeyEvent ==
    /\ SingleKeyCombinations = {"F1", "F4", "F5", "F11", "PrintScreen"}
    /\ hd_emit # NoEvent =>
          /\ Cardinality(hd_emitHeld) >= 2
          /\ hd_emit.Combination \notin SingleKeyCombinations

\* C5 witness: F1 alone is held and nothing was emitted
C5_Witness ==
    /\ hd_PressedKeys = {112}
    /\ hd_run = <<112>>
    /\ hd_emit = NoEvent

\* the method the claim gives for distance d (squared: d2) and click count c
C6_Method(d2, c) ==
    IF d2 < 25 /\ c <= 1 THEN "None"
    ELSE IF c = 2 THEN "DoubleClick"
    ELSE IF c = 3 THEN "TripleClick"
    ELSE IF d2 >= 25 THEN "MouseDrag"
    ELSE "None"

\* C6: on a primary-button up while selecting, no event if d < 5 and c <= 1;
\* otherwise DoubleClick for c = 2 and TripleClick for c = 3 whatever d is,
\* MouseDrag for any other c with d >= 5, no event for c >= 4 with d < 5; and
\* an event with that method is emitted iff the retrieved text is non-empty.
C6_SelectionClassified ==
    tst_up # NoCall =>
        /\ tst_up.method = C6_Method(tst_up.distanceSq, tst_up.clickCount)
        /\ (tst_up.clickCount = 2) => tst_up.method = "DoubleClick"
        /\ (tst_up.clickCount = 3) => tst_up.method = "TripleClick"
        /\ (tst_up.clickCount >= 4 /\ tst_up.distanceSq < 25) => tst_up.method = "None"
        /\ (tst_up.clickCount \notin {2, 3} /\ tst_up.distanceSq >= 25)
              => tst_up.method = "MouseDrag"
        /\ tst_emit # NoEvent <=> (tst_up.method # "None" /\ tst_up.text # <<>>)
        /\ tst_emit # NoEvent => tst_emit.SelectionMethod = tst_up.method

\* C6 witness: a third close click released 60 px away is still a TripleClick
C6_Witness ==
    /\ tst_up # NoCall
    /\ tst_up.clickCount = 3
    /\ tst_up.distanceSq = 3600
    /\ tst_up.method = "TripleClick"


\* ----------------------------------------------------------------- C7
ddt_IsEmpty ==
    /\ ddt_IsDragging = FALSE
    /\ ddt_DragStartTime = ZeroTime
    /\ ddt_DragStartElement = Nil
    /\ ddt_DragStartPos = Pos(0, 0)
    /\ ddt_LastDragPos = Pos(0, 0)

\* C7: every emitted DragDropEvent has Success true exactly when the target
\* element is non-nil and a drop target by role or name, or the distance from
\* the drag start to the release is more than 50 px, or more than 500 ms
\* passed since the primary-down; a drag from (0,0) to (0,60) onto a "listbox"
\* has Success true whatever the duration.
C7_SuccessHeuristics ==
    ddt_emit # NoEvent =>
        /\ ddt_emit.Success <=>
              \/ ddt_up.target # Nil /\ isDropTarget(ddt_up.target)
              \/ calculateDistanceSq(ddt_emit.StartPosition, ddt_emit.EndPosition) > 2500
              \/ ddt_up.duration > 500
        /\ ( /\ ddt_emit.StartPosition = Pos(0, 0)
             /\ ddt_emit.EndPosition = Pos(0, 60)
             /\ ddt_up.target # Nil
             /\ ToLower(ddt_up.target.Role) = <<"l", "i", "s", "t", "b", "o", "x">> )
           => ddt_emit.Success

\* a drop of exactly 50 px on a label, at once: not a success
C7_Witness ==
    /\ ddt_emit # NoEvent
    /\ ddt_emit.StartPosition = Pos(0, 0)
    /\ ddt_emit.EndPosition = Pos(30, 40)
    /\ ddt_up.target = E_label
    /\ ddt_up.duration = 0
    /\ ~ddt_emit.Success

\* ----------------------------------------------------------------- C8
\* C8: IsDragging becomes true only in a move that is 10 px or more from the
\* position of the primary-down; and a primary-button release less than
\* 10 px from the start emits no DragDropEvent and clears the drag state,
\* whatever moves came before.
C8_ShortDragNeverEmits ==
    /\ [][(~ddt_IsDragging /\ ddt_IsDragging') =>
            /\ ddt_call'.op = "move"
            /\ ddt_DragStartTime # ZeroTime
            /\ calculateDistanceSq(ddt_DragStartPos, ddt_call'.position) >= 100]_vars
    /\ []((ddt_up # NoCall /\ calculateDistanceSq(ddt_up.start, ddt_up.position) < 100)
            => (ddt_emit = NoEvent /\ ddt_IsEmpty))

\* an active drag that is released 3 px from where it started
C8_Witness ==
    /\ ddt_up # NoCall
    /\ ddt_up.wasDragging
    /\ ddt_up.start = Pos(0, 0)
    /\ ddt_up.position = Pos(0, 3)
    /\ ddt_emit = NoEvent
    /\ ddt_IsEmpty

\* ----------------------------------------------------------------- C9
\* C9: after an Escape key-down that cancelled an active drag, the drag state
\* is empty and nothing is emitted; no DragDropEvent is emitted by the next
\* primary-button release, nor by any call before a new primary-down that is
\* followed by a move of 10 px or more from it.
C9_EscapeCancels ==
    /\ ddt_sinceEsc = "esc" => (ddt_IsEmpty /\ ddt_emit = NoEvent)
    /\ ddt_sinceEsc = "down" => (~ddt_IsDragging /\ ddt_emit = NoEvent)

\* the primary-button release that follows the Escape, 60 px from the start
C9_Witness ==
    /\ ddt_sinceEsc = "esc"
    /\ ddt_up # NoCall
    /\ ddt_up.position = Pos(0, 60)
    /\ ddt_emit = NoEvent


\* ---------------------------------------------------------------- C10
\* C10: every completion of a text-input session, whatever its reason, emits
\* a TextInputCompletedEvent exactly when the text read at completion differs
\* from the text read at the session's start and is not blank after trimming;
\* the event carries that text, and the keystroke count it carries is the
\* number of HandleKeystroke calls applied to that session.
C10_CompletionEmits ==
    \A d \in tim_done :
        /\ d.event # NoEvent <=> (d.final # d.initial /\ TrimSpace(d.final) # <<>>)
        /\ d.event # NoEvent =>
              (d.event.TextValue = d.final /\ d.event.KeystrokeCount = d.applied)
        /\ d.count = d.applied

\* a session that took five keystrokes is completed by its deadline: the text
\* read is the text read at the start, and nothing is emitted
C10_Witness ==
    \E d \in tim_done :
        /\ d.reason = "timeout"
        /\ d.applied = 5
        /\ d.initial = <<>>
        /\ d.final = <<>>
        /\ d.event = NoEvent

\* ---------------------------------------------------------------- C11
\* C11: whenever a session is completed with reason "timeout", at least
\* CompletionTimeout has passed since the session's last keystroke (since its
\* start if it took none), also when the timer that completes it had fired
\* before it was stopped and rescheduled.
C11_TimeoutOnlyAfterDeadline ==
    \A d \in tim_done : d.reason = "timeout" => d.elapsed >= CompletionTimeout

\* ---------------------------------------------------------------- C12
\* C12: a call of StartTextInput for an element completes, with reason
\* "focus_change", every session that was active under a different identity
\* key, and removes it from ActiveInputs.
C12_FocusChangeCompletes ==
    [][(tim_call'.op = "start" /\ tim_call'.key # <<>>) =>
          \A k \in DOMAIN tim_ActiveInputs \ {tim_call'.key} :
              /\ k \notin DOMAIN tim_ActiveInputs'
              /\ \E d \in tim_done' : d.key = k /\ d.reason = "focus_change"]_vars

\* ---------------------------------------------------------------- C13
\* C13: every active session is stored under the identity key of its own
\* element (one session per key); and a call of StartTextInput for a key with an
\* active session completes that session, once, with reason "focus_change",
\* leaves no callback of that session's timer to run, and installs the new
\* session with keystroke count 0.
C13_OneSessionPerKey ==
    /\ [](\A k \in DOMAIN tim_ActiveInputs :
             getElementKey(tim_ActiveInputs[k].Element) = k)
    /\ [][(tim_call'.op = "start" /\ tim_call'.key \in DOMAIN tim_ActiveInputs) =>
             LET k == tim_call'.key
             IN /\ tim_done' = {Completion(k, tim_ActiveInputs[k], "focus_change")}
                /\ tim_stale'[k] = tim_stale[k]
                /\ k \in DOMAIN tim_ActiveInputs'
                /\ tim_ActiveInputs'[k].KeystrokeCount = 0
                /\ tim_ActiveInputs'[k].StartTime = now]_vars

\* ---------------------------------------------------------------- C14
\* C14: when CompleteAllActiveInputs returns ActiveInputs is empty; and a
\* second call right after the first completes no session, emits no event and
\* leaves the manager's state as it was.
C14_CompleteAllIdempotent ==
    /\ []((tim_call # NoCall /\ tim_call.op \in {"all", "all_again"}) =>
             tim_ActiveInputs = <<>>)
    /\ [][tim_call'.op = "all_again" =>
             /\ tim_done' = {}
             /\ UNCHANGED <<tim_ActiveInputs, tim_stale, tim_applied>>]_vars

\* the state after the second of two calls in a row, the callback of a timer
\* that fired before the first call stopped it still waiting
C14_Witness ==
    /\ tim_call # NoCall
    /\ tim_call.op = "all_again"
    /\ tim_ActiveInputs = <<>>
    /\ tim_done = {}
    /\ \E k \in tim_Keys : tim_stale[k] > 0

\* ---------------------------------------------------------------- C15
\* C15: from the return of CompleteAllActiveInputs until the next call of
\* StartTextInput there is no active session, and no callback of a timer
\* completes a session or emits an event, also not the callback of a timer that
\* had fired before it was stopped.
C15_NoCompletionAfterTeardown ==
    tim_sinceAll =>
        /\ tim_ActiveInputs = <<>>
        /\ tim_call.op = "timer" => tim_done = {}

\* the callback of a timer that had fired before the teardown runs after it
\* and finds no session
C15_Witness ==
    /\ tim_sinceAll
    /\ tim_call.op = "timer"
    /\ tim_done = {}
    /\ tim_ActiveInputs = <<>>

\* C16 (as amended): the first HandleWindowChange for a browser process that
\* is not tracked yet stores its state (title, extracted URL, the time of the
\* call) and emits nothing; every later one emits an event exactly when the
\* URL extracted from the title is non-empty and differs from the stored one,
\* and that event carries the extracted URL as ToURL, the previously stored
\* URL as FromURL and, as dwell time, the time since the process's last URL
\* change or seeding, which is zero when the two calls fall into the same
\* millisecond.
C16_WindowChangeEvents ==
    [][(/\ btt_call'.op = "window"
        /\ btt_call'.element # Nil
        /\ isBrowserWindow(btt_call'.element))
       => LET element == btt_call'.element
              processID == element.ProcessID
              url == extractURL(element.WindowTitle)
          IN IF processID \notin DOMAIN btt_BrowserStates
             THEN /\ btt_emit' = NoEvent
                  /\ processID \in DOMAIN btt_BrowserStates'
                  /\ btt_BrowserStates'[processID].CurrentURL = url
                  /\ btt_BrowserStates'[processID].WindowTitle = element.WindowTitle
                  /\ btt_BrowserStates'[processID].LastURLChange = now
             ELSE LET browserState == btt_BrowserStates[processID]
                  IN /\ (btt_emit' # NoEvent)
                            <=> (url # <<>> /\ url # browserState.CurrentURL)
                     /\ btt_emit' # NoEvent =>
                            /\ btt_emit'.ToURL = url
                            /\ btt_emit'.FromURL = browserState.CurrentURL
                            /\ btt_emit'.PageDwellTimeMs = now - browserState.LastURLChange
                            /\ btt_emit'.PageDwellTimeMs >= 0]_vars

\* an event for a change from one URL to another, some time after the last change
C16_Witness ==
    /\ btt_emit # NoEvent
    /\ btt_emit.FromURL # <<>>
    /\ btt_emit.ToURL # btt_emit.FromURL
    /\ btt_emit.PageDwellTimeMs = 300
    /\ now = 600

\* C16 as stated: every emitted event has a non-zero dwell time
C16_Original == btt_emit # NoEvent => btt_emit.PageDwellTimeMs > 0

\* C17 (as amended): the navigation method of an emitted event is the method
\* of the oldest hotkey in the process's recent-hotkey buffer that belongs to
\* one of the four categories (new tab, close tab, tab cycle, address bar);
\* with no such hotkey in the buffer it is TabClick if the recent-click buffer
\* is non-empty, else Other.
C17_OldestCategorisedHotkey ==
    [][(btt_call'.op = "window" /\ btt_emit' # NoEvent)
       => LET browserState == btt_BrowserStates[btt_call'.element.ProcessID]
              hotkeys == browserState.RecentHotkeys
              categorised == {i \in 1..Len(hotkeys) : methodOfHotkey(hotkeys[i]) # ""}
              oldest == CHOOSE i \in categorised : \A j \in categorised : i <= j
          IN btt_emit'.Method =
                IF categorised # {} THEN methodOfHotkey(hotkeys[oldest])
                ELSE IF browserState.RecentClicks # <<>> THEN "TabClick"
                ELSE "Other"]_vars

\* an event whose method comes from the older of two hotkeys, the newer one
\* being of a category the claim ranks higher
C17_Witness ==
    /\ btt_emit # NoEvent
    /\ btt_emit.Method = "CloseButton"
    /\ btt_BrowserStates[1].RecentHotkeys = <<"Ctrl+W", "Ctrl+T">>

\* C17 as stated: the method is chosen by category priority over the whole
\* buffer, whatever the order of the hotkeys in it
C17_Original ==
    [][(btt_call'.op = "window" /\ btt_emit' # NoEvent)
       => btt_emit'.Method =
             determineNavigationMethod_byCategory(
                 btt_BrowserStates[btt_call'.element.ProcessID])]_vars

\* C18: no BrowserState ever holds more than 5 recent hotkeys or more than 10
\* recent clicks; a navigation hotkey (a click) in a tracked browser is
\* appended as the newest entry, and when the buffer was full exactly its
\* oldest entry is dropped, the others keeping their order.
C18_BoundedBuffers ==
    /\ [](\A pid \in DOMAIN btt_BrowserStates :
             /\ Len(btt_BrowserStates[pid].RecentHotkeys) <= 5
             /\ Len(btt_BrowserStates[pid].RecentClicks) <= 10)
    /\ [][(/\ btt_call'.op \in {"hotkey", "click"}
           /\ btt_call'.element # Nil
           /\ isBrowserWindow(btt_call'.element)
           /\ btt_call'.element.ProcessID \in DOMAIN btt_BrowserStates)
          => LET pid == btt_call'.element.ProcessID
                 old == btt_BrowserStates[pid]
                 new == btt_BrowserStates'[pid]
                 Pushed(list, capacity) ==
                     IF Len(list) < capacity THEN Append(list, btt_call'.input)
                     ELSE Append(Tail(list), btt_call'.input)
             IN /\ (btt_call'.op = "hotkey" /\ isBrowserNavigationHotkey(btt_call'.input))
                       => new.RecentHotkeys = Pushed(old.RecentHotkeys, 5)
                /\ btt_call'.op = "click"
                       => new.RecentClicks = Pushed(old.RecentClicks, 10)]_vars

\* both buffers full, with different entries in them, right after a click
C18_Witness ==
    /\ btt_call # NoCall
    /\ btt_call.op = "click"
    /\ 1 \in DOMAIN btt_BrowserStates
    /\ btt_BrowserStates[1].RecentHotkeys =
          <<"Ctrl+W", "Ctrl+T", "Ctrl+T", "Ctrl+W", "Ctrl+W">>
    /\ Len(btt_BrowserStates[1].RecentClicks) = 10
    /\ btt_BrowserStates[1].RecentClicks[1] = Pos(1, 1)
    /\ btt_BrowserStates[1].RecentClicks[2] = Pos(0, 0)
    /\ btt_BrowserStates[1].RecentClicks[10] = Pos(0, 0)

\* C19: HandleHotkey and HandleClick emit no event, create no BrowserState and
\* leave every BrowserState's CurrentURL, WindowTitle, LastURLChange (and tab
\* data) as they were; the only thing they change is the recent-hotkey buffer
\* (HandleHotkey) or the recent-click buffer (HandleClick) of the process of
\* the active element, and only by appending to it.
C19_HotkeyClickFrame ==
    [][btt_call'.op \in {"hotkey", "click"}
       => /\ btt_emit' = NoEvent
          /\ DOMAIN btt_BrowserStates' = DOMAIN btt_BrowserStates
          /\ \A pid \in DOMAIN btt_BrowserStates :
                LET old == btt_BrowserStates[pid]
                    new == btt_BrowserStates'[pid]
                    Grown(before, after) ==
                        /\ Len(after) = Len(before) + 1
                        /\ SubSeq(after, 1, Len(before)) = before
                IN /\ new.CurrentURL = old.CurrentURL
                   /\ new.WindowTitle = old.WindowTitle
                   /\ new.LastURLChange = old.LastURLChange
                   /\ new.LastTabAction = old.LastTabAction
                   /\ new.TabCount = old.TabCount
                   /\ new.ProcessID = old.ProcessID
                   /\ new.RecentHotkeys # old.RecentHotkeys
                         => /\ btt_call'.op = "hotkey"
                            /\ btt_call'.element # Nil
                            /\ btt_call'.element.ProcessID = pid
                            /\ Grown(old.RecentHotkeys, new.RecentHotkeys)
                   /\ new.RecentClicks # old.RecentClicks
                         => /\ btt_call'.op = "click"
                            /\ btt_call'.element # Nil
                            /\ btt_call'.element.ProcessID = pid
                            /\ Grown(old.RecentClicks, new.RecentClicks)]_vars

\* a hotkey recorded, after a click, for a browser whose page had changed
\* some time before
C19_Witness ==
    /\ btt_call # NoCall
    /\ btt_call.op = "hotkey"
    /\ 1 \in DOMAIN btt_BrowserStates
    /\ btt_BrowserStates[1].RecentHotkeys = <<"Ctrl+T">>
    /\ btt_BrowserStates[1].RecentClicks # <<>>
    /\ btt_BrowserStates[1].CurrentURL # <<>>
    /\ btt_BrowserStates[1].LastURLChange = 300
    /\ now = 600

\* C20: with Allow called sequentially, no window (a WindowStart and the
\* WindowSize that follows it) has more than MaxEvents calls that returned
\* true, and every such call lies inside its window; a call made once
\* WindowSize has elapsed since WindowStart starts a new window at its own
\* time and counts from 0 (it is itself granted, as the first of the window);
\* a rejected call leaves EventCount (and the window) unchanged; and
\* 0 <= EventCount <= MaxEvents in every reachable state.
C20_FixedWindowLimit ==
    /\ [](rl_limiter # Nil =>
             /\ 0 <= rl_limiter.EventCount
             /\ rl_limiter.EventCount <= rl_limiter.MaxEvents
             /\ \A i \in 1..Len(rl_grants) :
                   /\ rl_grants[i].window <= rl_grants[i].at
                   /\ rl_grants[i].at < rl_grants[i].window + rl_limiter.WindowSize
                   /\ Cardinality({j \in 1..Len(rl_grants) :
                                      rl_grants[j].window = rl_grants[i].window})
                         <= rl_limiter.MaxEvents)
    /\ [][rl_ret'.op = "allow"
          => /\ now - rl_limiter.WindowStart >= rl_limiter.WindowSize
                   => /\ rl_limiter'.WindowStart = now
                      /\ rl_limiter'.EventCount = 1
                      /\ rl_ret'.ret
             /\ now - rl_limiter.WindowStart < rl_limiter.WindowSize
                   => /\ rl_limiter'.WindowStart = rl_limiter.WindowStart
                      /\ rl_ret'.ret <=> rl_limiter.EventCount < rl_limiter.MaxEvents
             /\ ~rl_ret'.ret => rl_limiter' = rl_limiter
             /\ rl_ret'.ret => Len(rl_grants') = Len(rl_grants) + 1]_vars

\* a call granted as the first of a new window, exactly WindowSize after the
\* start of a window that had been used up
C20_Witness ==
    /\ rl_ret # NoCall
    /\ rl_ret.op = "allow"
    /\ rl_ret.ret
    /\ rl_limiter.MaxEvents = 2
    /\ rl_limiter.EventCount = 1
    /\ rl_limiter.WindowStart = 1500
    /\ now = 1500
    /\ Len(rl_grants) = 3
    /\ rl_grants[2].window = 500

\* C23: a key-up of a held key removes that key from the held set and from
\* the press order; when no key is left, or more than 500 ms have passed since
\* the last key-down the detector recorded (LastKeyTime), the held set and the
\* press order are emptied, other keys included; a key-up of a key that is
\* not held changes nothing; no key-up emits an event.
C23_KeyUp ==
    [][\A k \in Keys :
          hd_HandleKeyPress(k, FALSE)
          => /\ hd_emit' = NoEvent
             /\ hd_LastKeyTime' = hd_LastKeyTime
             /\ IF k \in hd_PressedKeys
                THEN IF hd_PressedKeys = {k} \/ now - hd_LastKeyTime > 500
                     THEN hd_PressedKeys' = {} /\ hd_KeyPressOrder' = <<>>
                     ELSE /\ hd_PressedKeys' = hd_PressedKeys \ {k}
                          /\ hd_KeyPressOrder' =
                                SelectSeq(hd_KeyPressOrder, LAMBDA x : x # k)
                ELSE /\ hd_PressedKeys' = hd_PressedKeys
                     /\ hd_KeyPressOrder' = hd_KeyPressOrder]_vars

\* two keys went down, more than 500 ms passed, and the key-up of one of them
\* cleared the other as well
C23_Witness ==
    /\ Len(hd_run) = 2
    /\ \A i \in 1..Len(hd_runEmits) : hd_runEmits[i] = NoEvent
    /\ Cardinality(hd_ups) = 1
    /\ now - hd_LastKeyTime > 500
    /\ hd_PressedKeys = {}
    /\ hd_KeyPressOrder = <<>>

\* C24: HandleMouseDown with the primary button adds one to ClickCount exactly
\* when the press is within 5 px of the previous primary press and within
\* 500 ms of it, and sets ClickCount to 1 otherwise (so the first press gives
\* 1); either way it sets IsSelecting and records the press as the selection
\* start; with another button it changes nothing.
C24_ClickCount ==
    [][\A p \in tst_Positions, b \in MouseButtons :
          tst_HandleMouseDown(p, b)
          => IF b = "Left"
             THEN LET dx == p.X - tst_LastClickPos.X
                      dy == p.Y - tst_LastClickPos.Y
                      close == /\ tst_LastClickTime # ZeroTime
                               /\ now - tst_LastClickTime <= 500
                               /\ dx * dx + dy * dy <= 25
                  IN /\ tst_ClickCount' = IF close THEN tst_ClickCount + 1 ELSE 1
                     /\ tst_IsSelecting'
                     /\ tst_SelectionStartPos' = p
                     /\ tst_SelectionStartTime' = now
                     /\ tst_LastClickPos' = p
                     /\ tst_LastClickTime' = now
                     /\ tst_emit' = NoEvent
             ELSE /\ UNCHANGED <<tst_IsSelecting, tst_SelectionStartPos,
                                 tst_SelectionStartTime, tst_LastMousePos,
                                 tst_LastClickTime, tst_LastClickPos, tst_ClickCount>>
                  /\ tst_emit' = NoEvent]_vars

\* a third close press, 300 ms after the first and exactly 5 px from it
C24_Witness ==
    /\ tst_ClickCount = 3
    /\ tst_IsSelecting
    /\ tst_LastClickPos = Pos(103, 104)
    /\ tst_SelectionStartPos = Pos(103, 104)
    /\ tst_SelectionStartTime = 300
    /\ now = 300

\* ------------------------------------------------ calls without an element
\* every entry point that takes an element, called with an element and with
\* none: StartTextInput, the three entry points of the browser tracker, and
\* press, move and release of the drag tracker
nil_StartTextInput == \E e \in {Nil, T_name} : tim_StartTextInput(e)

nil_WindowChange == \E e \in {Nil, W1_a, W1_b} : btt_HandleWindowChange(e)

nil_Hotkey ==
    \E e \in {Nil, W1_a} :
        /\ RecordedHotkeys(W1_a) < MaxRecorded
        /\ btt_HandleHotkey("Ctrl+T", e)

nil_Click ==
    \E e \in {Nil, W1_a} :
        /\ RecordedClicks(W1_a) < MaxRecorded
        /\ btt_HandleClick(Pos(0, 0), e)

nil_MouseDown == \E e \in {Nil, E_item} : ddt_HandleMouseDown(Pos(0, 0), "Left", e)

nil_MouseMove == \E p \in {Pos(6, 8), Pos(30, 40)} : ddt_HandleMouseMove(p)

nil_MouseUp ==
    \E p \in {Pos(0, 3), Pos(30, 40), Pos(0, 60)}, e \in {Nil, E_listbox} :
        ddt_HandleMouseUp(p, "Left", e, <<>>)

NextNilElement ==
    \/ nil_StartTextInput
    \/ nil_WindowChange
    \/ nil_Hotkey
    \/ nil_Click
    \/ nil_MouseDown
    \/ nil_MouseMove
    \/ nil_MouseUp

SpecNilElement == Init /\ [][NextNilElement]_vars

\* the calls of C25 on the text-input manager and the browser tracker, with
\* no element: no state of the tracker changes and no event is emitted
NilCallsAreNoOps ==
    /\ tim_StartTextInput(Nil)
       => UNCHANGED <<tim_ActiveInputs, tim_stale, tim_applied>> /\ tim_done' = {}
    /\ btt_HandleWindowChange(Nil)
       => UNCHANGED btt_BrowserStates /\ btt_emit' = NoEvent
    /\ btt_HandleHotkey("Ctrl+T", Nil)
       => UNCHANGED btt_BrowserStates /\ btt_emit' = NoEvent
    /\ btt_HandleClick(Pos(0, 0), Nil)
       => UNCHANGED btt_BrowserStates /\ btt_emit' = NoEvent

C26_Original ==
    [][(/\ btt_emit # NoEvent
        /\ btt_emit' # NoEvent
        /\ btt_call.element.ProcessID = btt_call'.element.ProcessID)
       => btt_emit'.Method =
             determineNavigationMethod([RecentHotkeys |-> <<>>, RecentClicks |-> <<>>])]_vars

\* C29 as stated: a keystroke after the first that carries more than one
\* character (key code not V) marks the session Pasted only if it comes within
\* 50 ms of the session's prior keystroke; more than 50 ms later it leaves
\* the method as the paste rule found it
C29_Original ==
    [][\A k \in DOMAIN tim_ActiveInputs :
          (/\ tim_HandleKeystroke(65, <<"a", "b">>)
           /\ tim_applied'[k] = tim_applied[k] + 1
           /\ tim_ActiveInputs[k].KeystrokeCount >= 1
           /\ tim_ActiveInputs[k].InputMethod # "Pasted"
           /\ tim_ActiveInputs'[k].InputMethod = "Pasted")
          => now - tim_ActiveInputs[k].LastKeystroke < 50]_vars

\* the calls of Allow that returned true in the second that starts with the
\* i-th of them
GrantsInSecondFrom(i) ==
    {j \in 1..Len(rl_grants) :
        /\ rl_grants[i].at <= rl_grants[j].at
        /\ rl_grants[j].at < rl_grants[i].at + 1000}

\* C30 as stated: with a limiter of MaxEvents = M and a window of one second,
\* no interval of one second contains more than M calls of Allow that
\* returned true
C30_Original ==
    rl_limiter # Nil
    => \A i \in 1..Len(rl_grants) :
          Cardinality(GrantsInSecondFrom(i)) <= rl_limiter.MaxEvents

\* C30, amended: with a limiter of MaxEvents = M and a window of one second,
\* no interval of one second contains more than 2 * M calls of Allow that
\* returned true: the interval can overlap two windows of the fixed-window
\* counter, each of which grants at most M calls
C30_TwoWindows ==
    rl_limiter # Nil
    => \A i \in 1..Len(rl_grants) :
          Cardinality(GrantsInSecondFrom(i)) <= 2 * rl_limiter.MaxEvents

\* with M = 2, two calls were granted at 500 ms, at the end of the first
\* window, and two more at 1000 ms, at the start of the second window: four
\* grants within one second
C30_Witness ==
    /\ rl_limiter # Nil
    /\ rl_limiter.MaxEvents = 2
    /\ Len(rl_grants) = 4
    /\ rl_grants[1].at = 500
    /\ rl_grants[2].window = 0
    /\ rl_grants[3].at = 1000
    /\ rl_grants[4].window = 1000
    /\ Cardinality(GrantsInSecondFrom(1)) = 4

\* C27 as stated: when StopRecording ends the recording with a text-input
\* session still active whose text changed to a non-blank value (the field
\* received a character that is not blank), the session is completed and,
\* once every callback has run, its TextInputCompletedEvent is in Events
C27_Original ==
    (~rec_IsRecording /\ rec_pending = <<>>)
    => \A field \in rec_owed :
          \E i \in 1..Len(rec_Events) :
             /\ rec_Events[i].dyn = "TextInputCompletedEvent"
             /\ rec_Events[i].value.FieldName = field

\* C28 as stated: with mouse-noise filtering in effect no MouseMove or
\* MouseWheel event that went through HandleMouseEvent is in Events, and with
\* keyboard-noise filtering in effect no key-down event and no event without
\* a character that went through HandleKeyboardEvent is in Events
C28_Original ==
    rec_Config # Nil
    => \A i \in 1..Len(rec_Events) :
          /\ (/\ GetEffectiveSettings(rec_Config).FilterMouseNoise
              /\ rec_Events[i].dyn \in {"MouseEvent", "*MouseEvent"})
             => rec_Events[i].value.EventType \notin {"Move", "Wheel"}
          /\ (/\ GetEffectiveSettings(rec_Config).FilterKeyboardNoise
              /\ rec_Events[i].dyn \in {"KeyboardEvent", "*KeyboardEvent"})
             => /\ ~rec_Events[i].value.IsKeyDown
                /\ rec_Events[i].value.Character # Nil

\* ---------------------------------------------------------------------------
\* C21, C22: the order of emission, and callbacks that re-enter or block

\* the calls of tracker t that have completed and had an event to emit, in the
\* order they completed
CommittedEmitting(t) ==
    SelectSeq(cc_committed[t], LAMBDA id : id \in Range(cc_spawned[t]))

\* C21: within one tracker, for any interleaving of concurrent Handle*
\* callers, the callbacks are spawned in the order in which the calls that
\* emit them commit their state transitions under the tracker's exclusive
\* lock: the emitting calls that have completed are, in their order of
\* completion, the first callbacks spawned, and at most one callback has been
\* spawned by a call that has yet to release the lock
C21_SpawnOrder ==
    \A t \in cc_Trackers :
        /\ Len(CommittedEmitting(t)) <= Len(cc_spawned[t])
        /\ Len(cc_spawned[t]) <= Len(CommittedEmitting(t)) + 1
        /\ CommittedEmitting(t) = SubSeq(cc_spawned[t], 1, Len(CommittedEmitting(t)))

\* two callers have contended for one tracker, the one that called second got
\* the lock first, and both their events are out
C21_Witness ==
    \E t \in cc_Trackers :
        /\ cc_spawned[t] = <<2, 1>>
        /\ cc_committed[t] = <<2, 1>>

\* a goroutine that holds a tracker's mutex
Holders(t) == cc_mutex[t].w \cup cc_mutex[t].r

\* a goroutine that will take no further step by itself: a callback that
\* blocked, or a goroutine that waits for a mutex
Stuck(h) ==
    \/ \E g \in cc_Callers : h = Caller(g) /\ cc_caller[g].at = "waiting"
    \/ \E id \in DOMAIN cc_callback :
          h = Callback(id) /\ cc_callback[id].at \in {"waiting", "blocked"}

\* no mutex is held by a goroutine that is blocked or waits for a mutex
NoHolderStuck == \A t \in cc_Trackers : \A h \in Holders(t) : ~Stuck(h)

\* C22: a callback that calls back into the tracker that emitted its event
\* never deadlocks, and a callback that blocks forever never prevents a later
\* Handle* call on any tracker from completing: no lock is ever held by a
\* goroutine that cannot go on, every Handle* call that has started completes,
\* and every callback that has called into its tracker returns
C22_NoDeadlock ==
    /\ []NoHolderStuck
    /\ \A g \in cc_Callers : (cc_caller[g].at # "idle") ~> (cc_caller[g].at = "idle")
    /\ \A id \in cc_Ids :
          (id \in DOMAIN cc_callback /\ cc_callback[id].at = "waiting")
             ~> (id \in DOMAIN cc_callback /\ cc_callback[id].at = "returned")

\* one callback is blocked forever and another is inside the tracker it
\* called back into, while a later call on the blocked callback's tracker has
\* completed
C22_Witness ==
    \E b \in DOMAIN cc_callback, c \in DOMAIN cc_callback :
        /\ cc_callback[b].at = "blocked"
        /\ cc_callback[c].at = "inside"
        /\ \E i \in 1..Len(cc_committed[cc_callback[b].tracker]) :
              cc_committed[cc_callback[b].tracker][i] > b

\* ---------------------------------------------------------------------------
\* C31: a hotkey combination is emitted only if its keys were pressed within
\* MaxKeyDelay of each other: a key-down that completes a combination with
\* keys held from before arrives at most MaxKeyDelay after the previous
\* key-down
C31_Original ==
    [][hd_emit' # NoEvent => now - hd_LastKeyTime <= MaxKeyDelay]_vars

\* ---------------------------------------------------------------------------
\* Window titles whose URL is followed by punctuation

T1_dot == WindowElement(1, <<"h", "t", "t", "p", ":", "/", "/", "b", ".", " ", "-", " ", "C", "h", "r", "o", "m", "e">>, <<"c", "h", "r", "o", "m", "e", ".", "e", "x", "e">>)
T1_comma == WindowElement(1, <<"h", "t", "t", "p", "s", ":", "/", "/", "a", "/", "x", ",", " ", "-", " ", "C", "h", "r", "o", "m", "e">>, <<"c", "h", "r", "o", "m", "e", ".", "e", "x", "e">>)
T1_paren == WindowElement(1, <<"(", "s", "e", "e", " ", "h", "t", "t", "p", ":", "/", "/", "b", ";", ")", " ", "-", " ", "C", "h", "r", "o", "m", "e">>, <<"c", "h", "r", "o", "m", "e", ".", "e", "x", "e">>)
T1_bar == WindowElement(1, <<"h", "t", "t", "p", ":", "/", "/", "b", "|", "c", ".", " ", "-", " ", "C", "h", "r", "o", "m", "e">>, <<"c", "h", "r", "o", "m", "e", ".", "e", "x", "e">>)
T2_dot == WindowElement(2, <<"h", "t", "t", "p", ":", "/", "/", "b", ".", " ", "-", " ", "F", "i", "r", "e", "f", "o", "x">>, <<"f", "i", "r", "e", "f", "o", "x">>)

btt_Titles == {W1_plain, W1_b, T1_dot, T1_comma, T1_paren, T1_bar, W2_plain, T2_dot}

btt_TitleWindowChange == \E e \in btt_Titles : btt_HandleWindowChange(e)

NextBrowserTitles == btt_TitleWindowChange \/ btt_Tick

SpecBrowserTitles == Init /\ [][NextBrowserTitles]_vars

trailingPunctuation == {".", ",", ";", ")"}

\* C32: the URL that extractURL returns for a window title never ends with
\* '.', ',', ';' or ')', whichever pattern produced the match
C32_Original ==
    (btt_call # NoCall /\ btt_call.op = "window") =>
        LET url == extractURL(btt_call.element.WindowTitle)
        IN url # <<>> => url[Len(url)] \notin trailingPunctuation

\* the calls of Allow that returned true and were counted in the window that
\* started at w
GrantsInWindow(w) == {i \in 1..Len(rl_grants) : rl_grants[i].window = w}

\* C33: with several callback goroutines calling Allow at the same time, no
\* interleaving lets more than MaxEvents calls return true within one window,
\* and EventCount never exceeds MaxEvents
C33_Original ==
    rl_limiter # Nil =>
        /\ rl_limiter.EventCount <= rl_limiter.MaxEvents
        /\ \A i \in 1..Len(rl_grants) :
              Cardinality(GrantsInWindow(rl_grants[i].window)) <= rl_limiter.MaxEvents

\* ---------------------------------------------------------------------------
\* The key names of the detector and the display strings of the catalog

\* the table keyNames of getKeyName
keyNames ==
    8 :> "Backspace" @@ 9 :> "Tab" @@ 13 :> "Enter" @@ 16 :> "Shift" @@ 17 :> "Ctrl" @@
    18 :> "Alt" @@ 27 :> "Esc" @@ 32 :> "Space" @@ 33 :> "PageUp" @@
    34 :> "PageDown" @@ 35 :> "End" @@ 36 :> "Home" @@ 37 :> "Left" @@ 38 :> "Up" @@
    39 :> "Right" @@ 40 :> "Down" @@ 46 :> "Delete" @@ 48 :> "0" @@ 49 :> "1" @@
    50 :> "2" @@ 51 :> "3" @@ 52 :> "4" @@ 53 :> "5" @@ 54 :> "6" @@ 55 :> "7" @@
    56 :> "8" @@ 57 :> "9" @@ 65 :> "A" @@ 66 :> "B" @@ 67 :> "C" @@ 68 :> "D" @@
    69 :> "E" @@ 70 :> "F" @@ 71 :> "G" @@ 72 :> "H" @@ 73 :> "I" @@ 74 :> "J" @@
    75 :> "K" @@ 76 :> "L" @@ 77 :> "M" @@ 78 :> "N" @@ 79 :> "O" @@ 80 :> "P" @@
    81 :> "Q" @@ 82 :> "R" @@ 83 :> "S" @@ 84 :> "T" @@ 85 :> "U" @@ 86 :> "V" @@
    87 :> "W" @@ 88 :> "X" @@ 89 :> "Y" @@ 90 :> "Z" @@ 91 :> "Win" @@ 92 :> "Win" @@
    112 :> "F1" @@ 113 :> "F2" @@ 114 :> "F3" @@ 115 :> "F4" @@ 116 :> "F5" @@
    117 :> "F6" @@ 118 :> "F7" @@ 119 :> "F8" @@ 120 :> "F9" @@ 121 :> "F10" @@
    122 :> "F11" @@ 123 :> "F12" @@ 160 :> "Shift" @@ 161 :> "Shift" @@
    162 :> "Ctrl" @@ 163 :> "Ctrl" @@ 164 :> "Alt" @@ 165 :> "Alt"

\* HotkeyDetector.getKeyName(keyCode)
getKeyName(keyCode) ==
    IF keyCode \in DOMAIN keyNames THEN keyNames[keyCode]
    ELSE "Key" \o ToString(keyCode)

\* the names of a list of keys, joined by "+"
RECURSIVE JoinKeyNames(_)
JoinKeyNames(keys) ==
    IF Len(keys) = 1 THEN getKeyName(keys[1])
    ELSE getKeyName(keys[1]) \o "+" \o JoinKeyNames(Tail(keys))

\* the ways to list the keys of a set
Listings(keySet) ==
    {seq \in [1..Cardinality(keySet) -> keySet] : Range(seq) = keySet}

VK_F4 == 115

\* C34: the display string of every emitted event names exactly the keys
\* held when it was emitted, under getKeyName; the event labelled "Alt+F4" is
\* emitted with Alt (0x12) and F4 (0x73) held and with no other keys, and
\* holding Alt and F4 emits it (they never stay held together without a match)
C34_Original ==
    /\ hd_emit # NoEvent =>
          \E keys \in Listings(hd_emitHeld) : hd_emit.Combination = JoinKeyNames(keys)
    /\ (hd_emit # NoEvent /\ hd_emit.Combination = "Alt+F4") =>
          hd_emitHeld = {VK_MENU, VK_F4}
    /\ hd_PressedKeys # {VK_MENU, VK_F4}

\* ---------------------------------------------------------------------------
\* the DragDropEvents the recorder's trackers have spawned or it has kept
rec_DragDropEvents ==
    {rec_pending[i].value : i \in {j \in 1..Len(rec_pending) :
                                      rec_pending[j].dyn = "DragDropEvent"}}
    \cup {rec_Events[i].value : i \in {j \in 1..Len(rec_Events) :
                                         rec_Events[j].dyn = "DragDropEvent"}}

\* C35: every DragDropEvent produced through HandleMouseEvent has Success =
\* true: the target element is the one getCurrentUIElement returns, whose role
\* "window" is a drop-target role
C35_AlwaysSuccess == \A event \in rec_DragDropEvents : event.Success

\* a drag of exactly 50 px released at once, which neither the distance nor
\* the duration heuristic accepts, has been emitted
C35_Witness ==
    \E event \in rec_DragDropEvents :
        /\ calculateDistanceSq(event.StartPosition, event.EndPosition)
              <= dropDistance * dropDistance
        /\ now <= dropDuration

\* ---------------------------------------------------------------------------
\* C36: an Escape key-down while the tracker is Idle or in PotentialDrag
\* (IsDragging false), and any key event other than an Escape key-down in any
\* state, leaves all drag state unchanged
C36_KeyLeavesState ==
    [][(/\ ddt_call' # NoCall
        /\ ddt_call'.op = "key"
        /\ ~(ddt_call'.keyCode = VK_ESCAPE /\ ddt_call'.isKeyDown /\ ddt_IsDragging))
       => UNCHANGED ddt_state]_vars

\* Escape was pressed during a potential drag, which is still pending
C36_Witness ==
    /\ ddt_call # NoCall
    /\ ddt_call.op = "key"
    /\ ddt_call.keyCode = VK_ESCAPE
    /\ ddt_call.isKeyDown
    /\ ~ddt_IsDragging
    /\ ddt_DragStartTime # ZeroTime

\* ---------------------------------------------------------------------------
\* C37: HandleMouseMove writes LastMousePos only while IsSelecting is true,
\* under every interleaving with HandleMouseUp or HandleMouseDown on another
\* thread
C37_Original ==
    [][(sr_pc.at = "checked" /\ sr_pc'.at = "idle") => tst_IsSelecting]_vars

\* ---------------------------------------------------------------------------
\* C38: once a process's stored CurrentURL is non-empty it never becomes empty
\* again; a window change of a stored process whose title yields no URL
\* changes only the stored WindowTitle (and emits nothing); and every emitted
\* BrowserTabNavigationEvent has a non-empty ToURL that differs from its FromURL
C38_URLKept ==
    [][/\ \A p \in DOMAIN btt_BrowserStates :
             btt_BrowserStates[p].CurrentURL # <<>> =>
                /\ p \in DOMAIN btt_BrowserStates'
                /\ btt_BrowserStates'[p].CurrentURL # <<>>
       /\ (/\ btt_call' # NoCall
           /\ btt_call'.op = "window"
           /\ btt_call'.element # Nil
           /\ isBrowserWindow(btt_call'.element)
           /\ extractURL(btt_call'.element.WindowTitle) = <<>>
           /\ btt_call'.element.ProcessID \in DOMAIN btt_BrowserStates)
          => /\ btt_BrowserStates' =
                   [btt_BrowserStates EXCEPT ![btt_call'.element.ProcessID].WindowTitle =
                       btt_call'.element.WindowTitle]
             /\ btt_emit' = NoEvent
       /\ btt_emit' # NoEvent =>
             /\ btt_emit'.ToURL # <<>>
             /\ btt_emit'.ToURL # btt_emit'.FromURL]_vars

\* a browser whose URL is stored has just shown a title without URL, and the
\* stored title is that title
C38_Witness ==
    /\ btt_call # NoCall
    /\ btt_call.op = "window"
    /\ btt_call.element = W1_plain
    /\ 1 \in DOMAIN btt_BrowserStates
    /\ btt_BrowserStates[1].CurrentURL # <<>>
    /\ btt_BrowserStates[1].WindowTitle = W1_plain.WindowTitle

\* ------------------------------------------- completion timers run to the end
NextTextInputDrain ==
    \/ tim_StartBefore \/ tim_KeyBefore \/ tim_AllBefore
    \/ tim_Fire \/ tim_Run \/ tim_Stale \/ tim_Tick \/ tim_Drain

\* a timer that is due fires, and its callback gets the manager's lock
FairTimers ==
    \A k \in tim_Keys : WF_vars(tim_TimerFire(k)) /\ WF_vars(tim_TimerRun(k))

SpecTextInputDrain == Init /\ [][NextTextInputDrain]_vars /\ FairTimers

\* the timer of every session is armed for CompletionTimeout after the session's
\* last keystroke (or its start), or it has fired at its deadline or later and
\* its callback has not run
TimerArmedOrPending ==
    \A k \in DOMAIN tim_ActiveInputs :
        LET tracker == tim_ActiveInputs[k]
            timer == tracker.CompletionTimer
        IN /\ timer.due = tracker.LastKeystroke + CompletionTimeout
           /\ timer.fired => now >= timer.due

\* C39: every session in ActiveInputs has a completion timer that is armed or
\* has fired and waits to run, and once StartTextInput and HandleKeystroke are
\* no longer called and the timers fire, no session stays in ActiveInputs
C39_SessionsComplete ==
    /\ []TimerArmedOrPending
    /\ (now = DrainTime) ~> (DOMAIN tim_ActiveInputs = {})

\* the calls have stopped with a session left, and the callback of a timer has
\* completed the last session
C39_Witness ==
    /\ now = DrainTime
    /\ tim_call = TimCall("timer", getElementKey(T_mail))
    /\ \E c \in tim_done : c.reason = "timeout" /\ c.count > 0
    /\ DOMAIN tim_ActiveInputs = {}

\* ------------------------------------------------- the inferred input method
\* the order Typed -> Suggestion -> Pasted
MethodRank(method) ==
    CASE method = "Typed" -> 0
      [] method = "Suggestion" -> 1
      [] method = "Pasted" -> 2
      [] OTHER -> -1

InferredMethods == {"Typed", "Pasted", "Suggestion"}

\* C40: while a session lasts (no StartTextInput replaces it) its InputMethod
\* only moves forward along Typed -> Suggestion -> Pasted, so it never returns
\* to Typed and Pasted is final; the method of every session, which its event
\* copies, and of every emitted event is Typed, Pasted or Suggestion
C40_MethodForward ==
    [][/\ \A k \in DOMAIN tim_ActiveInputs \cap DOMAIN tim_ActiveInputs' :
            tim_call' # TimCall("start", k) =>
               /\ MethodRank(tim_ActiveInputs'[k].InputMethod) >=
                     MethodRank(tim_ActiveInputs[k].InputMethod)
               /\ tim_ActiveInputs[k].InputMethod = "Pasted" =>
                     tim_ActiveInputs'[k].InputMethod = "Pasted"
               /\ tim_ActiveInputs[k].KeystrokeCount >= 1
                  /\ tim_ActiveInputs[k].InputMethod # "Typed" =>
                     tim_ActiveInputs'[k].InputMethod # "Typed"
       /\ \A k \in DOMAIN tim_ActiveInputs' :
            tim_ActiveInputs'[k].InputMethod \in InferredMethods
       /\ \A c \in tim_done' :
            c.event # NoEvent => c.event.InputMethod \in InferredMethods]_vars

\* a session marked Pasted that has had four keystrokes or more
C40_Witness ==
    \E k \in DOMAIN tim_ActiveInputs :
        /\ tim_ActiveInputs[k].InputMethod = "Pasted"
        /\ tim_ActiveInputs[k].KeystrokeCount >= 4

====
